---- MODULE Spec2Model ----
(***************************************************************************)
(* State-machine model of the swaptrade contract: the Portfolio aggregate  *)
(* (portfolio.rs), the contract entry points that load it, mutate it and   *)
(* store it back (src/lib.rs), and the token-level swap validation         *)
(* (src/trading.rs).                                                       *)
(*                                                                         *)
(* A Soroban Map is a partial function; Map::get(k).unwrap_or(d) is        *)
(* MapGet(m, k, d).  A panic (assert!, panic!, expect) aborts the call     *)
(* before the aggregate is written back, so a failing entry point leaves   *)
(* the persisted state as it was.  Fallible Portfolio methods are          *)
(* operators returning [ok, err, p]: p is the aggregate as the method left *)
(* it when the panic was raised.                                           *)
(***************************************************************************)
EXTENDS Integers, Sequences, FiniteSets, TLC

VARIABLES
    portfolio,  \* the persisted Portfolio aggregate (instance storage slot ())
    env,        \* ledger clock and the rate limiter's buckets
    last,       \* the last call: entry point, arguments, outcome
    ghost       \* history: assets created by mint, fees taken per asset, calls made

vars == <<portfolio, env, last, ghost>>

----------------------------------------------------------------------------
(* Bounds of the model *)

\* State-changing calls per behaviour.
MaxOps == 2
\* Ledger timestamps run over 0..MaxTime.
MaxTime == 2
\* The integer range: i128 scaled down to what the checker's integers hold.
IntMax == 1000000000
\* Length of a mint sequence.
MaxMints == 3
\* Largest amount the fee computation is tried on.
MaxFeeAmount == 2000

Users == {"alice", "bob"}

\* Symbols of the two reserve assets.
XLM == "XLM"
USDCSIM == "USDCSIM"

IntMin == 0 - IntMax - 1

----------------------------------------------------------------------------
(* Rust integer arithmetic *)

Min(a, b) == IF a <= b THEN a ELSE b
Max(a, b) == IF a >= b THEN a ELSE b
Abs(a) == IF a < 0 THEN 0 - a ELSE a

Clamp(x) == IF x > IntMax THEN IntMax ELSE IF x < IntMin THEN IntMin ELSE x

\* i128::saturating_add, saturating_sub, saturating_mul
SatAdd(a, b) == Clamp(a + b)
SatSub(a, b) == Clamp(a - b)
SatMul(a, b) == Clamp(a * b)

\* Signed `/`: the quotient rounded toward zero.
TruncDiv(a, b) ==
    IF (a >= 0) = (b > 0) THEN Abs(a) \div Abs(b) ELSE 0 - (Abs(a) \div Abs(b))

\* `x as u128` of a signed value: a negative value wraps to the top of the range.
AsU128(x) == IF x >= 0 THEN x ELSE 2 * (IntMax + 1) + x

\* `x as i128` of an unsigned value.
AsI128(x) == IF x > IntMax THEN x - 2 * (IntMax + 1) ELSE x

\* u128::saturating_mul
USatMul(a, b) == IF a * b > 2 * IntMax + 1 THEN 2 * IntMax + 1 ELSE a * b

----------------------------------------------------------------------------
(* Soroban Map *)

MapGet(m, k, d) == IF k \in DOMAIN m THEN m[k] ELSE d
MapSet(m, k, v) == [x \in DOMAIN m \cup {k} |-> IF x = k THEN v ELSE m[x]]
EmptyMap == [x \in {} |-> 0]

RECURSIVE SumOver(_, _)
SumOver(f, S) ==
    IF S = {} THEN 0
    ELSE LET x == CHOOSE y \in S : TRUE IN f[x] + SumOver(f, S \ {x})

----------------------------------------------------------------------------
(* Outcomes of a fallible method *)

Ok(p) == [ok |-> TRUE, err |-> "ok", p |-> p]
Panic(msg, p) == [ok |-> FALSE, err |-> msg, p |-> p]

----------------------------------------------------------------------------
(* Portfolio: the aggregate and its methods (portfolio.rs) *)

Badges == {"FirstTrade", "Trader", "WealthBuilder", "LiquidityProvider",
           "Diversifier", "Consistency"}

\* Capacity of the leaderboard.
LeaderboardCap == 100
\* Thresholds of the Trader, WealthBuilder, Diversifier and Consistency badges.
TraderTrades == 10
WealthFactor == 10
DiversifierPairs == 5
ConsistencyHeights == 7

\* Portfolio::new
NewPortfolio ==
    [ balances |-> EmptyMap,
      trades |-> EmptyMap,
      pnl |-> EmptyMap,
      badges |-> EmptyMap,
      metrics |-> [trades_executed |-> 0, failed_orders |-> 0, balances_updated |-> 0],
      total_users |-> 0,
      total_trading_volume |-> 0,
      active_users |-> <<>>,
      top_traders |-> <<>>,
      xlm_in_pool |-> 0,
      usdc_in_pool |-> 0,
      total_fees_collected |-> 0,
      initial_balances |-> EmptyMap,
      token_pairs_traded |-> EmptyMap,
      ledger_heights_traded |-> EmptyMap,
      lp_deposits_count |-> EmptyMap,
      lp_positions |-> EmptyMap,
      total_lp_tokens |-> 0,
      lp_fees_accumulated |-> 0 ]

\* u32::saturating_add(1)
USatInc(x) == IF x >= 2 * IntMax + 1 THEN x ELSE x + 1

\* A plain `+` on i128 panics when the sum leaves the range.
Overflows(x) == x > IntMax \/ x < IntMin

BumpBalancesUpdated(p) ==
    [p EXCEPT !.metrics.balances_updated = USatInc(@)]

\* Portfolio::balance_of
BalanceOf(p, token, user) == MapGet(p.balances, <<user, token>>, 0)

\* A credit that takes any non-zero amount, negative ones included.
CreditAnyAmount(p, token, user, amount) ==
    IF amount = 0 THEN Ok(p)
    ELSE LET current == BalanceOf(p, token, user) IN
         IF Overflows(current + amount) THEN Panic("overflow", p)
         ELSE Ok(BumpBalancesUpdated(
                 [p EXCEPT !.balances = MapSet(@, <<user, token>>, current + amount)]))

\* A credit that books the amount to every user's balance of the asset.
CreditEveryUser(p, token, user, amount) ==
    IF amount = 0 THEN Ok(p)
    ELSE IF ~(amount > 0) THEN Panic("Amount must be positive", p)
    ELSE Ok(BumpBalancesUpdated(
            [p EXCEPT !.balances =
                [k \in DOMAIN @ \cup {<<user, token>>} |->
                    IF k[2] = token THEN MapGet(p.balances, k, 0) + amount
                    ELSE p.balances[k]]]))

\* Portfolio::credit
Credit(p, token, user, amount) ==
    IF amount = 0 THEN Ok(p)
    ELSE IF ~(amount > 0) THEN Panic("Amount must be positive", p)
    ELSE LET current == BalanceOf(p, token, user) IN
         IF Overflows(current + amount) THEN Panic("overflow", p)
         ELSE Ok(BumpBalancesUpdated(
                 [p EXCEPT !.balances = MapSet(@, <<user, token>>, current + amount)]))

\* A debit that does not look at the balance it takes from.
DebitUnchecked(p, token, from, amount) ==
    IF ~(amount > 0) THEN Panic("Amount must be positive", p)
    ELSE LET current == BalanceOf(p, token, from) IN
         Ok(BumpBalancesUpdated(
               [p EXCEPT !.balances = MapSet(@, <<from, token>>, current - amount),
                         !.pnl = MapSet(@, from, SatSub(MapGet(p.pnl, from, 0), amount))]))

\* Portfolio::debit
Debit(p, token, from, amount) ==
    IF ~(amount > 0) THEN Panic("Amount must be positive", p)
    ELSE LET current == BalanceOf(p, token, from) IN
         IF ~(current >= amount) THEN Panic("Insufficient funds", p)
         ELSE Ok(BumpBalancesUpdated(
                 [p EXCEPT !.balances = MapSet(@, <<from, token>>, current - amount),
                           !.pnl = MapSet(@, from, SatSub(MapGet(p.pnl, from, 0), amount))]))

\* The comparison and swap of the bubble sort at position j, 1-based.
BubbleCompare(s, j) ==
    IF s[j][2] < s[j + 1][2]
      THEN [s EXCEPT ![j] = s[j + 1], ![j + 1] = s[j]]
      ELSE s

\* One inner pass of the bubble sort: positions j .. lim in order, by halves (a
\* pass keeps the length of the list).
RECURSIVE BubblePass(_, _, _)
BubblePass(s, j, lim) ==
    IF j > lim THEN s
    ELSE IF j = lim THEN BubbleCompare(s, j)
    ELSE LET mid == (j + lim) \div 2
             left == BubblePass(s, j, mid)
         IN IF Len(left) = Len(s) THEN BubblePass(left, mid + 1, lim) ELSE left

\* The outer rounds i .. hi of the bubble sort in order, by halves.
RECURSIVE BubbleRounds(_, _, _)
BubbleRounds(s, i, hi) ==
    IF i > hi THEN s
    ELSE IF i = hi THEN BubblePass(s, 1, Len(s) - 1 - i)
    ELSE LET mid == (i + hi) \div 2
             left == BubbleRounds(s, i, mid)
         IN IF Len(left) = Len(s) THEN BubbleRounds(left, mid + 1, hi) ELSE left

\* The outer loop of the bubble sort from round i on.
BubbleOuter(s, i) == BubbleRounds(s, i, Len(s) - 1)

\* A sort that makes a single round.
SortTopTradersOneRound(s) == BubbleRounds(s, 0, 0)

\* Portfolio::sort_top_traders
SortTopTraders(s) == BubbleOuter(s, 0)

\* Index of the user's entry in the leaderboard, 0 when it has none.
FoundIndex(s, user) ==
    IF \E i \in 1..Len(s) : s[i][1] = user
      THEN CHOOSE i \in 1..Len(s) : s[i][1] = user /\ \A k \in 1..(i - 1) : s[k][1] # user
      ELSE 0

\* Portfolio::update_top_traders
UpdateTopTraders(p, user) ==
    LET user_pnl == MapGet(p.pnl, user, 0)
        s == p.top_traders
        idx == FoundIndex(s, user)
        placed ==
            IF idx # 0 THEN [s EXCEPT ![idx] = <<user, user_pnl>>]
            ELSE IF Len(s) < LeaderboardCap THEN Append(s, <<user, user_pnl>>)
            ELSE IF user_pnl > s[LeaderboardCap][2]
                   THEN [s EXCEPT ![LeaderboardCap] = <<user, user_pnl>>]
                   ELSE s
    IN [p EXCEPT !.top_traders = SortTopTraders(placed)]

\* A mint that overwrites the balance with the amount instead of adding to it.
MintOverwrite(p, token, to, amount) ==
    IF ~(amount >= 0) THEN Panic("Amount must be non-negative", p)
    ELSE LET current_pnl == MapGet(p.pnl, to, 0) IN
         Ok(BumpBalancesUpdated(UpdateTopTraders(
               [p EXCEPT !.balances = MapSet(@, <<to, token>>, amount),
                         !.pnl = MapSet(@, to, current_pnl + amount)],
               to)))

\* Portfolio::mint
Mint(p, token, to, amount) ==
    IF ~(amount >= 0) THEN Panic("Amount must be non-negative", p)
    ELSE LET current == BalanceOf(p, token, to)
             current_pnl == MapGet(p.pnl, to, 0) IN
         IF Overflows(current + amount) \/ Overflows(current_pnl + amount)
           THEN Panic("overflow", p)
           ELSE Ok(BumpBalancesUpdated(UpdateTopTraders(
                   [p EXCEPT !.balances = MapSet(@, <<to, token>>, current + amount),
                             !.pnl = MapSet(@, to, current_pnl + amount)],
                   to)))

\* Portfolio::has_badge
HasBadge(p, user, badge) == MapGet(p.badges, <<user, badge>>, FALSE)

\* Portfolio::award_badge: the aggregate afterwards.
AwardBadge(p, user, badge) ==
    IF HasBadge(p, user, badge) THEN p
    ELSE [p EXCEPT !.badges = MapSet(@, <<user, badge>>, TRUE)]

\* An award that reports success whether or not the badge was already held.
AwardBadgeReturnsAlways(p, user, badge) == TRUE

\* Portfolio::award_badge: the boolean it returns.
AwardBadgeReturns(p, user, badge) == ~HasBadge(p, user, badge)

\* A record_trade that counts the trade and awards nothing.
RecordTradeNoBadge(p, user) ==
    [p EXCEPT !.trades = MapSet(@, user, MapGet(p.trades, user, 0) + 1),
              !.metrics.trades_executed = USatInc(@)]

\* Portfolio::record_trade
RecordTrade(p, user) ==
    LET count == MapGet(p.trades, user, 0)
        counted == [p EXCEPT !.trades = MapSet(@, user, count + 1),
                             !.metrics.trades_executed = USatInc(@)]
    IN IF count = 0 THEN AwardBadge(counted, user, "FirstTrade") ELSE counted

\* Portfolio::update_stats_on_trade
UpdateStatsOnTrade(p, user, swap_amount) ==
    LET trade_count == MapGet(p.trades, user, 0)
        is_active == \E i \in 1..Len(p.active_users) : p.active_users[i] = user
        seen ==
            IF trade_count = 0
              THEN [p EXCEPT !.total_users = USatInc(@),
                             !.active_users = IF is_active THEN @ ELSE Append(@, user)]
              ELSE p
    IN [seen EXCEPT !.total_trading_volume = SatAdd(@, swap_amount)]

\* Portfolio::record_trade_with_amount
RecordTradeWithAmount(p, user, swap_amount) ==
    UpdateStatsOnTrade(RecordTrade(p, user), user, swap_amount)

\* Portfolio::transfer_asset: a debit, then a credit, then the volume statistics.
TransferAsset(p, from_token, to_token, user, amount) ==
    LET debited == Debit(p, from_token, user, amount) IN
    IF ~debited.ok THEN debited
    ELSE LET credited == Credit(debited.p, to_token, user, amount) IN
         IF ~credited.ok THEN credited
         ELSE Ok(UpdateStatsOnTrade(credited.p, user, amount))

\* Portfolio::get_total_user_balance: the PnL accumulator stands in for it.
GetTotalUserBalance(p, user) == MapGet(p.pnl, user, 0)

\* Portfolio::check_and_award_badges
CheckAndAwardBadges(p, user) ==
    LET trades == MapGet(p.trades, user, 0)
        p1 == IF trades >= TraderTrades THEN AwardBadge(p, user, "Trader") ELSE p
        initial_balance == MapGet(p.initial_balances, user, 0)
        p2 == IF initial_balance > 0
                 /\ GetTotalUserBalance(p1, user) >= initial_balance * WealthFactor
                THEN AwardBadge(p1, user, "WealthBuilder") ELSE p1
        p3 == IF MapGet(p.lp_deposits_count, user, 0) >= 1
                THEN AwardBadge(p2, user, "LiquidityProvider") ELSE p2
        p4 == IF Len(MapGet(p.token_pairs_traded, user, <<>>)) >= DiversifierPairs
                THEN AwardBadge(p3, user, "Diversifier") ELSE p3
    IN IF Len(MapGet(p.ledger_heights_traded, user, <<>>)) >= ConsistencyHeights
         THEN AwardBadge(p4, user, "Consistency") ELSE p4

\* Portfolio::record_trade: the badges for which award_badge returned true.
RecordTradeAwards(p, user) ==
    LET count == MapGet(p.trades, user, 0)
        counted == [p EXCEPT !.trades = MapSet(@, user, count + 1),
                             !.metrics.trades_executed = USatInc(@)]
    IN IF count = 0 /\ AwardBadgeReturns(counted, user, "FirstTrade")
         THEN {"FirstTrade"} ELSE {}

\* Portfolio::check_and_award_badges: the badges for which award_badge returned true.
CheckAndAwardBadgesAwards(p, user) ==
    LET trades == MapGet(p.trades, user, 0)
        due1 == trades >= TraderTrades
        p1 == IF due1 THEN AwardBadge(p, user, "Trader") ELSE p
        initial_balance == MapGet(p.initial_balances, user, 0)
        due2 == initial_balance > 0
                 /\ GetTotalUserBalance(p1, user) >= initial_balance * WealthFactor
        p2 == IF due2 THEN AwardBadge(p1, user, "WealthBuilder") ELSE p1
        due3 == MapGet(p.lp_deposits_count, user, 0) >= 1
        p3 == IF due3 THEN AwardBadge(p2, user, "LiquidityProvider") ELSE p2
        due4 == Len(MapGet(p.token_pairs_traded, user, <<>>)) >= DiversifierPairs
        p4 == IF due4 THEN AwardBadge(p3, user, "Diversifier") ELSE p3
        due5 == Len(MapGet(p.ledger_heights_traded, user, <<>>)) >= ConsistencyHeights
    IN    (IF due1 /\ AwardBadgeReturns(p, user, "Trader") THEN {"Trader"} ELSE {})
     \cup (IF due2 /\ AwardBadgeReturns(p1, user, "WealthBuilder")
             THEN {"WealthBuilder"} ELSE {})
     \cup (IF due3 /\ AwardBadgeReturns(p2, user, "LiquidityProvider")
             THEN {"LiquidityProvider"} ELSE {})
     \cup (IF due4 /\ AwardBadgeReturns(p3, user, "Diversifier")
             THEN {"Diversifier"} ELSE {})
     \cup (IF due5 /\ AwardBadgeReturns(p4, user, "Consistency")
             THEN {"Consistency"} ELSE {})

\* Portfolio::format_pair_helper
FormatPairHelper(from, to) == from

\* Whether a vector holds a value (the linear scans of track_trade_for_badges).
InVec(vec, x) == \E i \in 1..Len(vec) : vec[i] = x

\* Portfolio::track_trade_for_badges
TrackTradeForBadges(p, user, from_token, to_token, ledger_height) ==
    LET pairs == MapGet(p.token_pairs_traded, user, <<>>)
        pair_key == FormatPairHelper(from_token, to_token)
        paired == IF InVec(pairs, pair_key) THEN p
                  ELSE [p EXCEPT !.token_pairs_traded =
                                     MapSet(@, user, Append(pairs, pair_key))]
        heights == MapGet(paired.ledger_heights_traded, user, <<>>)
    IN IF InVec(heights, ledger_height) THEN paired
       ELSE [paired EXCEPT !.ledger_heights_traded =
                               MapSet(@, user, Append(heights, ledger_height))]

\* Portfolio::record_initial_balance
RecordInitialBalance(p, user, amount) ==
    IF user \notin DOMAIN p.initial_balances /\ amount > 0
      THEN [p EXCEPT !.initial_balances = MapSet(@, user, amount)]
      ELSE p

\* The badge kinds in the order get_user_badges walks them.
BadgeTypes == <<"FirstTrade", "Trader", "WealthBuilder", "LiquidityProvider",
                "Diversifier", "Consistency">>

\* Portfolio::get_user_badges as defined second, over every badge kind.
GetUserBadges(p, user) ==
    SelectSeq(BadgeTypes, LAMBDA badge : HasBadge(p, user, badge))

\* Portfolio::get_user_badges as defined first, over the FirstTrade badge only.
GetUserBadgesFirstTradeOnly(p, user) ==
    IF HasBadge(p, user, "FirstTrade") THEN <<"FirstTrade">> ELSE <<>>

\* Portfolio::record_lp_deposit
RecordLpDeposit(p, user) ==
    [p EXCEPT !.lp_deposits_count = MapSet(@, user, USatInc(MapGet(p.lp_deposits_count, user, 0)))]

\* Portfolio::inc_failed_order
IncFailedOrder(p) == [p EXCEPT !.metrics.failed_orders = USatInc(@)]

\* Portfolio::collect_fee
CollectFee(p, fee_amount) ==
    [p EXCEPT !.total_fees_collected = SatAdd(@, fee_amount)]

\* A pool deposit that books the XLM side only.
AddPoolLiquidityXlmOnly(p, xlm_amount, usdc_amount) ==
    [p EXCEPT !.xlm_in_pool = SatAdd(@, xlm_amount)]

\* A pool deposit booked twice over.
AddPoolLiquidityTwice(p, xlm_amount, usdc_amount) ==
    [p EXCEPT !.xlm_in_pool = SatAdd(@, 2 * xlm_amount),
              !.usdc_in_pool = SatAdd(@, 2 * usdc_amount)]

\* Portfolio::add_pool_liquidity
AddPoolLiquidity(p, xlm_amount, usdc_amount) ==
    [p EXCEPT !.xlm_in_pool = SatAdd(@, xlm_amount),
              !.usdc_in_pool = SatAdd(@, usdc_amount)]

\* Portfolio::set_liquidity
SetLiquidity(p, asset, amount) ==
    IF asset = XLM THEN [p EXCEPT !.xlm_in_pool = amount]
    ELSE IF asset = USDCSIM THEN [p EXCEPT !.usdc_in_pool = amount]
    ELSE p

\* Portfolio::get_liquidity
GetLiquidity(p, asset) ==
    IF asset = XLM THEN p.xlm_in_pool
    ELSE IF asset = USDCSIM THEN p.usdc_in_pool
    ELSE 0

\* A supply that grows by twice what was minted.
AddTotalLpTokensTwice(p, amount) ==
    [p EXCEPT !.total_lp_tokens = SatAdd(@, 2 * amount)]

\* Portfolio::add_total_lp_tokens
AddTotalLpTokens(p, amount) ==
    [p EXCEPT !.total_lp_tokens = SatAdd(@, amount)]

\* A burn that leaves the supply as it was.
SubtractTotalLpTokensNoop(p, amount) == p

\* Portfolio::subtract_total_lp_tokens
SubtractTotalLpTokens(p, amount) ==
    [p EXCEPT !.total_lp_tokens = Max(SatSub(@, amount), 0)]

\* Portfolio::invariant_fee_bounds
MAX_FEE_BPS == 100
BPS_DENOM == 10000
InvariantFeeBounds(amount, fee) ==
    IF fee < 0 THEN FALSE
    ELSE IF amount > 0 THEN ~(fee > TruncDiv(amount * MAX_FEE_BPS, BPS_DENOM))
    ELSE IF amount = 0 /\ fee # 0 THEN FALSE
    ELSE TRUE

\* Portfolio::invariant_amm_constant_product
InvariantAmmConstantProduct(xlm_before, usdc_before, xlm_after, usdc_after) ==
    IF xlm_after < 0 \/ usdc_after < 0 THEN FALSE
    ELSE ~(USatMul(AsU128(xlm_after), AsU128(usdc_after))
             > USatMul(AsU128(xlm_before), AsU128(usdc_before)))

\* Portfolio::invariant_non_negative_balances
InvariantNonNegativeBalances(balance) == balance >= 0

\* Portfolio::invariant_asset_conservation: the checks it makes locally.
InvariantAssetConservation(p) ==
    ~(p.xlm_in_pool < 0) /\ ~(p.usdc_in_pool < 0)
    /\ ~(p.total_lp_tokens < 0) /\ ~(p.lp_fees_accumulated < 0)


----------------------------------------------------------------------------
(* Tier classifier and fee policy: tiers.rs is not among the sources; modelled
   from the specification (a tier is a function of the trade count and carries
   a fee rate in basis points, never above 1%). *)

Tiers == {"Novice", "Trader", "Expert", "Whale"}

\* Portfolio::get_user_tier
GetUserTier(p, user) ==
    LET trades == MapGet(p.trades, user, 0) IN
    IF trades >= 100 THEN "Whale"
    ELSE IF trades >= 50 THEN "Expert"
    ELSE IF trades >= 10 THEN "Trader"
    ELSE "Novice"

\* UserTier::effective_fee_bps
EffectiveFeeBps(tier) ==
    CASE tier = "Novice" -> 30
      [] tier = "Trader" -> 25
      [] tier = "Expert" -> 20
      [] tier = "Whale" -> 15

\* A fee taken per thousand instead of per ten thousand.
FeeAmountPerMille(amount, fee_bps) == TruncDiv(amount * fee_bps, 1000)

\* The fee of a swap (the computation in CounterContract::swap).
FeeAmount(amount, fee_bps) == TruncDiv(amount * fee_bps, BPS_DENOM)

----------------------------------------------------------------------------
(* Rate limiter: rate_limit.rs is not among the sources; modelled from the
   specification.  A bucket is [count, window_start]; it is reset when the
   current time exceeds window_start + RateWindow. *)

\* Window length, in time units.
RateWindow == 2

\* Operations a tier allows per window.
SwapMax(tier) ==
    CASE tier = "Novice" -> 2
      [] tier = "Trader" -> 3
      [] tier = "Expert" -> 4
      [] tier = "Whale" -> 5

LpMax(tier) ==
    CASE tier = "Novice" -> 2
      [] tier = "Trader" -> 3
      [] tier = "Expert" -> 4
      [] tier = "Whale" -> 5

EmptyBucket == [count |-> 0, window_start |-> 0]

\* The bucket as the limiter reads it at time `now`.
CurrentBucket(buckets, user, now) ==
    LET b == MapGet(buckets, user, EmptyBucket) IN
    IF now > b.window_start + RateWindow THEN [count |-> 0, window_start |-> now] ELSE b

\* RateLimiter::check_swap_limit: TRUE when the call may proceed.
CheckSwapLimit(e, user, tier) ==
    CurrentBucket(e.swap_buckets, user, e.timestamp).count < SwapMax(tier)

\* RateLimiter::check_lp_limit
CheckLpLimit(e, user, tier) ==
    CurrentBucket(e.lp_buckets, user, e.timestamp).count < LpMax(tier)

\* RateLimiter::record_lp_op
RecordLpOp(e, user, timestamp) ==
    LET b == CurrentBucket(e.lp_buckets, user, timestamp) IN
    [e EXCEPT !.lp_buckets = MapSet(@, user, [b EXCEPT !.count = @ + 1])]

----------------------------------------------------------------------------
(* AMM swap engine: the perform_swap the contract calls (counter/trading.rs)
   is not among the sources; modelled from the specification.  The pricing
   rule is the one the repository's tests simulate: the input is added to its
   reserve and the other reserve becomes k divided by it. *)

PoolAssets == {XLM, USDCSIM}

\* The output-side reserve rounded up instead of down.
AmmReserveOutAfterCeil(reserve_in, reserve_out, amount) ==
    LET x_new == reserve_in + amount IN
    IF x_new > 0 THEN (reserve_in * reserve_out + x_new - 1) \div x_new ELSE 0

\* One-to-one pricing: the output reserve gives up what the input reserve takes.
AmmReserveOutAfterOneToOne(reserve_in, reserve_out, amount) == reserve_out - amount

\* The output-side reserve after `amount` enters the input side.
AmmReserveOutAfter(reserve_in, reserve_out, amount) ==
    LET x_new == reserve_in + amount IN
    IF x_new > 0 THEN (reserve_in * reserve_out) \div x_new ELSE 0

\* perform_swap: [ok, err, p, out]
PerformSwap(p, from, to, amount, user) ==
    IF ~(amount > 0) THEN [ok |-> FALSE, err |-> "ZeroAmountSwap", p |-> p, out |-> 0]
    ELSE IF from = to \/ from \notin PoolAssets \/ to \notin PoolAssets
      THEN [ok |-> FALSE, err |-> "InvalidSwapPair", p |-> p, out |-> 0]
    ELSE LET debited == Debit(p, from, user, amount) IN
         IF ~debited.ok
           THEN [ok |-> FALSE, err |-> "InsufficientBalance", p |-> p, out |-> 0]
           ELSE LET reserve_in == GetLiquidity(debited.p, from)
                    reserve_out == GetLiquidity(debited.p, to)
                    out_after == AmmReserveOutAfter(reserve_in, reserve_out, amount)
                    out == reserve_out - out_after
                    pooled == SetLiquidity(SetLiquidity(debited.p, from, reserve_in + amount),
                                           to, out_after)
                    credited == Credit(pooled, to, user, out)
                IN [ok |-> credited.ok, err |-> credited.err,
                    p |-> IF credited.ok THEN credited.p ELSE p, out |-> out]


----------------------------------------------------------------------------
(* Contract entry points (src/lib.rs): each loads the aggregate, works on the
   copy, and stores it back as its last step. *)

\* Iterations the integer square root is allowed.
SqrtMaxIter == 100

\* The loop stopped after five iterations.
RECURSIVE BabylonianLoopFiveSteps(_, _, _, _)
BabylonianLoopFiveSteps(product, guess, prev_guess, iterations) ==
    IF guess # prev_guess /\ iterations < 5
      THEN LET next == (guess + product \div guess) \div 2 IN
           IF next = 0 THEN 1
           ELSE BabylonianLoopFiveSteps(product, next, guess, iterations + 1)
      ELSE guess

\* One pass of the Babylonian loop of add_liquidity over its variables; `broke`
\* records the break.  A state in which the loop has ended is left as it is.
BabylonianStep(product, s) ==
    IF ~s.broke /\ s.guess # s.prev_guess /\ s.iterations < SqrtMaxIter
      THEN LET next == (s.guess + product \div s.guess) \div 2 IN
           IF next = 0
             THEN [s EXCEPT !.prev_guess = s.guess, !.guess = 1, !.broke = TRUE]
             ELSE [s EXCEPT !.prev_guess = s.guess, !.guess = next,
                            !.iterations = @ + 1]
      ELSE s

\* `n` passes of the loop, by halves.
RECURSIVE BabylonianPasses(_, _, _)
BabylonianPasses(product, s, n) ==
    IF n = 0 THEN s
    ELSE IF n = 1 THEN BabylonianStep(product, s)
    ELSE LET half == BabylonianPasses(product, s, n \div 2) IN
         IF half.broke \/ half.guess = half.prev_guess THEN half
         ELSE BabylonianPasses(product, half, n - n \div 2)

\* The Babylonian loop of add_liquidity: it ends within SqrtMaxIter passes.
BabylonianLoop(product, guess, prev_guess, iterations) ==
    BabylonianPasses(product,
                     [guess |-> guess, prev_guess |-> prev_guess,
                      iterations |-> iterations, broke |-> FALSE],
                     SqrtMaxIter).guess

\* LP tokens of a first deposit.
FirstDepositTokens(xlm_amount, usdc_amount) ==
    LET product == USatMul(AsU128(xlm_amount), AsU128(usdc_amount)) IN
    AsI128(BabylonianLoop(product, product, 0, 0))

\* The larger of the two proportional shares instead of the smaller.
ProportionalTokensMax(xlm_amount, usdc_amount, current_xlm, current_usdc, total_lp_tokens) ==
    LET xlm_share == IF current_xlm > 0
                       THEN USatMul(AsU128(xlm_amount), AsU128(total_lp_tokens))
                              \div AsU128(current_xlm)
                       ELSE 0
        usdc_share == IF current_usdc > 0
                        THEN USatMul(AsU128(usdc_amount), AsU128(total_lp_tokens))
                               \div AsU128(current_usdc)
                        ELSE 0
    IN Max(AsI128(xlm_share), AsI128(usdc_share))

\* LP tokens of a later deposit: the smaller of the two proportional shares.
ProportionalTokens(xlm_amount, usdc_amount, current_xlm, current_usdc, total_lp_tokens) ==
    LET xlm_share == IF current_xlm > 0
                       THEN USatMul(AsU128(xlm_amount), AsU128(total_lp_tokens))
                              \div AsU128(current_xlm)
                       ELSE 0
        usdc_share == IF current_usdc > 0
                        THEN USatMul(AsU128(usdc_amount), AsU128(total_lp_tokens))
                               \div AsU128(current_usdc)
                        ELSE 0
    IN Min(AsI128(xlm_share), AsI128(usdc_share))

NoPosition == [xlm_deposited |-> 0, usdc_deposited |-> 0, lp_tokens_minted |-> 0]

\* CounterContract::mint: [ok, err, p]
MintCall(p, token, to, amount) == Mint(p, token, to, amount)

\* CounterContract::swap: [ok, err, p, out, fee]
SwapCall(p, e, from, to, amount, user) ==
    LET user_tier == GetUserTier(p, user)
        fee_amount == FeeAmount(amount, EffectiveFeeBps(user_tier))
        swap_amount == amount - fee_amount
        failed(msg) == [ok |-> FALSE, err |-> msg, p |-> p, out |-> 0, fee |-> 0]
    IN
    IF ~CheckSwapLimit(e, user, user_tier) THEN failed("RATELIMIT")
    ELSE LET charged == IF fee_amount > 0 THEN Debit(p, from, user, fee_amount) ELSE Ok(p) IN
         IF ~charged.ok THEN failed(charged.err)
         ELSE LET collected == IF fee_amount > 0 THEN CollectFee(charged.p, fee_amount)
                                                 ELSE charged.p
                  first == PerformSwap(collected, from, to, swap_amount, user)
              IN
              IF ~first.ok THEN failed(first.err)
              ELSE LET second == PerformSwap(first.p, from, to, amount, user) IN
                   IF ~second.ok THEN failed(second.err)
                   ELSE [ok |-> TRUE, err |-> "ok", p |-> RecordTrade(second.p, user),
                         out |-> second.out, fee |-> Max(fee_amount, 0)]

\* CounterContract::try_swap: [ok, err, p, out]; ok is FALSE when the call panics.
TrySwapCall(p, from, to, amount, user) ==
    LET tokens_ok == from \in {XLM, "USDC-SIM"} /\ to \in {XLM, "USDC-SIM"}
        pair_ok == from # to
        amount_ok == amount > 0
    IN
    IF ~(tokens_ok /\ pair_ok /\ amount_ok)
      THEN [ok |-> TRUE, err |-> "swap_failed", p |-> IncFailedOrder(p), out |-> 0]
      ELSE LET swapped == PerformSwap(p, from, to, amount, user) IN
           IF ~swapped.ok THEN [ok |-> FALSE, err |-> swapped.err, p |-> p, out |-> 0]
           ELSE [ok |-> TRUE, err |-> "ok", p |-> RecordTrade(swapped.p, user),
                 out |-> swapped.out]

\* CounterContract::add_liquidity: [ok, err, p, e, out]
AddLiquidityCall(p, e, xlm_amount, usdc_amount, user) ==
    LET failed(msg) == [ok |-> FALSE, err |-> msg, p |-> p, e |-> e, out |-> 0]
        current_xlm == GetLiquidity(p, XLM)
        current_usdc == GetLiquidity(p, USDCSIM)
        total_lp_tokens == p.total_lp_tokens
        lp_tokens_minted ==
            IF total_lp_tokens = 0
              THEN FirstDepositTokens(xlm_amount, usdc_amount)
              ELSE ProportionalTokens(xlm_amount, usdc_amount,
                                      current_xlm, current_usdc, total_lp_tokens)
    IN
    IF ~(xlm_amount > 0) THEN failed("XLM amount must be positive")
    ELSE IF ~(usdc_amount > 0) THEN failed("USDC amount must be positive")
    ELSE IF ~CheckLpLimit(e, user, GetUserTier(p, user)) THEN failed("RATELIMIT")
    ELSE IF ~(BalanceOf(p, XLM, user) >= xlm_amount) THEN failed("Insufficient XLM balance")
    ELSE IF ~(BalanceOf(p, USDCSIM, user) >= usdc_amount)
      THEN failed("Insufficient USDC balance")
    ELSE IF ~(lp_tokens_minted > 0) THEN failed("LP tokens minted must be positive")
    ELSE LET d1 == Debit(p, XLM, user, xlm_amount)
             d2 == Debit(d1.p, USDCSIM, user, usdc_amount)
             pooled == AddPoolLiquidity(d2.p, xlm_amount, usdc_amount)
             new_position ==
                 IF user \in DOMAIN pooled.lp_positions
                   THEN LET pos == pooled.lp_positions[user] IN
                        [xlm_deposited |-> SatAdd(pos.xlm_deposited, xlm_amount),
                         usdc_deposited |-> SatAdd(pos.usdc_deposited, usdc_amount),
                         lp_tokens_minted |-> SatAdd(pos.lp_tokens_minted, lp_tokens_minted)]
                   ELSE [xlm_deposited |-> xlm_amount,
                         usdc_deposited |-> usdc_amount,
                         lp_tokens_minted |-> lp_tokens_minted]
             positioned == AddTotalLpTokens(
                 [pooled EXCEPT !.lp_positions = MapSet(@, user, new_position)],
                 lp_tokens_minted)
             awarded == CheckAndAwardBadges(RecordLpDeposit(positioned, user), user)
         IN [ok |-> TRUE, err |-> "ok", p |-> awarded,
             e |-> RecordLpOp(e, user, e.timestamp), out |-> lp_tokens_minted]

\* A withdrawal bound that never trips.
ExceedsDepositedNever(amount, deposited) == FALSE

\* The sanity bound of remove_liquidity: the amount returned is more than the
\* deposit recorded in the position plus 1%.
ExceedsDeposited(amount, deposited) == amount > TruncDiv(SatMul(deposited, 101), 100)

\* CounterContract::remove_liquidity: [ok, err, p, e, xlm, usdc]
RemoveLiquidityCall(p, e, lp_tokens, user) ==
    LET failed(msg) == [ok |-> FALSE, err |-> msg, p |-> p, e |-> e, xlm |-> 0, usdc |-> 0]
        pos == MapGet(p.lp_positions, user, NoPosition)
        current_xlm == GetLiquidity(p, XLM)
        current_usdc == GetLiquidity(p, USDCSIM)
        total_lp_tokens == p.total_lp_tokens
        xlm_amount == AsI128(USatMul(AsU128(lp_tokens), AsU128(current_xlm))
                               \div AsU128(total_lp_tokens))
        usdc_amount == AsI128(USatMul(AsU128(lp_tokens), AsU128(current_usdc))
                                \div AsU128(total_lp_tokens))
    IN
    IF ~(lp_tokens > 0) THEN failed("LP tokens must be positive")
    ELSE IF user \notin DOMAIN p.lp_positions THEN failed("User has no LP position")
    ELSE IF ~(pos.lp_tokens_minted >= lp_tokens) THEN failed("Insufficient LP tokens")
    ELSE IF ~(total_lp_tokens > 0) THEN failed("No LP tokens in pool")
    ELSE IF ~(xlm_amount > 0 /\ usdc_amount > 0) THEN failed("Amounts must be positive")
    ELSE IF ExceedsDeposited(xlm_amount, pos.xlm_deposited)
            \/ ExceedsDeposited(usdc_amount, pos.usdc_deposited)
      THEN failed("Cannot remove more than deposited")
    ELSE LET drained == SetLiquidity(
                 SetLiquidity(p, XLM, SatSub(current_xlm, xlm_amount)),
                 USDCSIM, SatSub(current_usdc, usdc_amount))
             m1 == Mint(drained, XLM, user, xlm_amount)
             m2 == Mint(m1.p, USDCSIM, user, usdc_amount)
             new_pos == [xlm_deposited |-> SatSub(pos.xlm_deposited, xlm_amount),
                         usdc_deposited |-> SatSub(pos.usdc_deposited, usdc_amount),
                         lp_tokens_minted |-> SatSub(pos.lp_tokens_minted, lp_tokens)]
         IN
         IF ~m1.ok THEN failed(m1.err)
         ELSE IF ~m2.ok THEN failed(m2.err)
         ELSE [ok |-> TRUE, err |-> "ok",
               p |-> SubtractTotalLpTokens(
                        [m2.p EXCEPT !.lp_positions = MapSet(@, user, new_pos)], lp_tokens),
               e |-> RecordLpOp(e, user, e.timestamp),
               xlm |-> xlm_amount, usdc |-> usdc_amount]

----------------------------------------------------------------------------
(* Token-level swap validation (src/trading.rs) *)

\* The balance get_balance reports, whatever the ledger holds.
MockBalance == 1000

\* is_valid_token
IsValidToken(token) == token \in {"USD", "BTC"}

\* is_valid_swap_pair
IsValidSwapPair(token_a, token_b) ==
    (token_a = "USD" /\ token_b = "BTC") \/ (token_a = "BTC" /\ token_b = "USD")

\* get_balance
GetBalance(user, token) == MockBalance

\* swap_tokens: the error it returns, "ok" for Ok(()).
SwapTokens(user, token_a, token_b, amount) ==
    IF amount = 0 THEN "ZeroAmountSwap"
    ELSE IF ~IsValidToken(token_a) \/ ~IsValidToken(token_b) THEN "InvalidTokenSymbol"
    ELSE IF ~IsValidSwapPair(token_a, token_b) THEN "InvalidSwapPair"
    ELSE IF GetBalance(user, token_a) < amount THEN "InsufficientBalance"
    ELSE "ok"


----------------------------------------------------------------------------
(* The state machine *)

AllTokens == {XLM, USDCSIM, "USDC-SIM", "USD", "BTC"}

EnvInit == [timestamp |-> 0, swap_buckets |-> EmptyMap, lp_buckets |-> EmptyMap]

NoCall == [op |-> "init", caller |-> "-", user |-> "-", from |-> "-", to |-> "-",
           amount |-> 0, amount2 |-> 0, ok |-> TRUE, err |-> "ok", out |-> 0, out2 |-> 0]

GhostInit == [minted |-> [t \in AllTokens |-> 0], fees |-> [t \in AllTokens |-> 0], ops |-> 0]

\* The aggregate after each user has minted `amount` of both reserve assets.
RECURSIVE FundedPortfolio(_, _, _)
FundedPortfolio(p, todo, amount) ==
    IF todo = {} THEN p
    ELSE LET k == CHOOSE x \in todo : TRUE IN
         FundedPortfolio(MintCall(p, k[2], k[1], amount).p, todo \ {k}, amount)

\* What each user holds of each reserve asset in a funded initial state.
FundAmount == 1000

Funded == FundedPortfolio(NewPortfolio, Users \X PoolAssets, FundAmount)

GhostFunded ==
    [GhostInit EXCEPT !.minted = [t \in AllTokens |->
        IF t \in PoolAssets THEN FundAmount * Cardinality(Users) ELSE 0]]

\* What the first liquidity provider deposits of each asset in a pooled initial state.
PoolAmount == 500

\* The funded aggregate after one user has provided the first liquidity.
PooledCall ==
    AddLiquidityCall(Funded, EnvInit, PoolAmount, PoolAmount, CHOOSE u \in Users : TRUE)

\* The contract as deployed, after every user has been funded through mint, or
\* after one of them has then made the first deposit.
Init ==
    /\ last = NoCall
    /\ \/ portfolio = NewPortfolio /\ env = EnvInit /\ ghost = GhostInit
       \/ portfolio = Funded /\ env = EnvInit /\ ghost = GhostFunded
       \/ portfolio = PooledCall.p /\ env = PooledCall.e /\ ghost = GhostFunded

\* A call that changes the persisted state counts against MaxOps.
Counted(changed, g) == IF changed THEN [g EXCEPT !.ops = @ + 1] ELSE g

\* CounterContract::mint
DoMint(caller, token, to, amount) ==
    LET r == MintCall(portfolio, token, to, amount) IN
    /\ r.ok => ghost.ops < MaxOps
    /\ portfolio' = IF r.ok THEN r.p ELSE portfolio
    /\ env' = env
    /\ last' = [NoCall EXCEPT !.op = "mint", !.caller = caller, !.user = to, !.to = token,
                              !.amount = amount, !.ok = r.ok, !.err = r.err]
    /\ ghost' = IF r.ok THEN [Counted(TRUE, ghost) EXCEPT !.minted[token] = @ + amount]
                        ELSE ghost

\* Portfolio::credit, called on the aggregate directly
DoCredit(token, user, amount) ==
    LET r == Credit(portfolio, token, user, amount) IN
    /\ r.p # portfolio => ghost.ops < MaxOps
    /\ portfolio' = r.p
    /\ env' = env
    /\ last' = [NoCall EXCEPT !.op = "credit", !.user = user, !.to = token,
                              !.amount = amount, !.ok = r.ok, !.err = r.err]
    /\ ghost' = Counted(r.p # portfolio, ghost)

\* Portfolio::debit, called on the aggregate directly
DoDebit(token, user, amount) ==
    LET r == Debit(portfolio, token, user, amount) IN
    /\ r.p # portfolio => ghost.ops < MaxOps
    /\ portfolio' = r.p
    /\ env' = env
    /\ last' = [NoCall EXCEPT !.op = "debit", !.user = user, !.from = token,
                              !.amount = amount, !.ok = r.ok, !.err = r.err]
    /\ ghost' = Counted(r.p # portfolio, ghost)

\* Portfolio::transfer_asset, called on the aggregate directly
DoTransferAsset(from_token, to_token, user, amount) ==
    LET r == TransferAsset(portfolio, from_token, to_token, user, amount) IN
    /\ r.p # portfolio => ghost.ops < MaxOps
    /\ portfolio' = r.p
    /\ env' = env
    /\ last' = [NoCall EXCEPT !.op = "transfer_asset", !.user = user, !.from = from_token,
                              !.to = to_token, !.amount = amount, !.ok = r.ok, !.err = r.err]
    /\ ghost' = Counted(r.p # portfolio, ghost)

\* CounterContract::swap
DoSwap(caller, from, to, amount, user) ==
    LET r == SwapCall(portfolio, env, from, to, amount, user) IN
    /\ r.ok => ghost.ops < MaxOps
    /\ portfolio' = IF r.ok THEN r.p ELSE portfolio
    /\ env' = env
    /\ last' = [NoCall EXCEPT !.op = "swap", !.caller = caller, !.user = user, !.from = from,
                              !.to = to, !.amount = amount, !.amount2 = r.fee,
                              !.ok = r.ok, !.err = r.err, !.out = r.out]
    /\ ghost' = IF r.ok THEN [Counted(TRUE, ghost) EXCEPT !.fees[from] = @ + r.fee]
                        ELSE ghost

\* CounterContract::try_swap
DoTrySwap(caller, from, to, amount, user) ==
    LET r == TrySwapCall(portfolio, from, to, amount, user) IN
    /\ r.ok => ghost.ops < MaxOps
    /\ portfolio' = IF r.ok THEN r.p ELSE portfolio
    /\ env' = env
    /\ last' = [NoCall EXCEPT !.op = "try_swap", !.caller = caller, !.user = user,
                              !.from = from, !.to = to, !.amount = amount,
                              !.ok = r.ok, !.err = r.err, !.out = r.out]
    /\ ghost' = Counted(r.ok, ghost)

\* CounterContract::add_liquidity
DoAddLiquidity(caller, xlm_amount, usdc_amount, user) ==
    LET r == AddLiquidityCall(portfolio, env, xlm_amount, usdc_amount, user) IN
    /\ r.ok => ghost.ops < MaxOps
    /\ portfolio' = IF r.ok THEN r.p ELSE portfolio
    /\ env' = IF r.ok THEN r.e ELSE env
    /\ last' = [NoCall EXCEPT !.op = "add_liquidity", !.caller = caller, !.user = user,
                              !.amount = xlm_amount, !.amount2 = usdc_amount,
                              !.ok = r.ok, !.err = r.err, !.out = r.out]
    /\ ghost' = Counted(r.ok, ghost)

\* CounterContract::remove_liquidity
DoRemoveLiquidity(caller, lp_tokens, user) ==
    LET r == RemoveLiquidityCall(portfolio, env, lp_tokens, user) IN
    /\ r.ok => ghost.ops < MaxOps
    /\ portfolio' = IF r.ok THEN r.p ELSE portfolio
    /\ env' = IF r.ok THEN r.e ELSE env
    /\ last' = [NoCall EXCEPT !.op = "remove_liquidity", !.caller = caller, !.user = user,
                              !.amount = lp_tokens, !.ok = r.ok, !.err = r.err,
                              !.out = r.xlm, !.out2 = r.usdc]
    /\ ghost' = Counted(r.ok, ghost)

\* swap_tokens (src/trading.rs): validation only, no state of the aggregate is touched.
DoSwapTokens(user, token_a, token_b, amount) ==
    LET err == SwapTokens(user, token_a, token_b, amount) IN
    /\ portfolio' = portfolio
    /\ env' = env
    /\ last' = [NoCall EXCEPT !.op = "swap_tokens", !.caller = user, !.user = user,
                              !.from = token_a, !.to = token_b, !.amount = amount,
                              !.ok = (err = "ok"), !.err = err]
    /\ ghost' = ghost

\* The ledger clock advances.
Tick ==
    /\ env.timestamp < MaxTime
    /\ env' = [env EXCEPT !.timestamp = @ + 1]
    /\ portfolio' = portfolio
    /\ last' = [NoCall EXCEPT !.op = "tick"]
    /\ ghost' = ghost

\* Inputs the calls are tried on.
MintAmounts == {-1, 1000}
CreditAmounts == {-1, 500}
DebitAmounts == {0, 500, 1500}
SwapInputs == {<<XLM, USDCSIM, 100>>, <<XLM, USDCSIM, 400>>, <<USDCSIM, XLM, 400>>,
               <<XLM, XLM, 400>>, <<XLM, "USDC-SIM", 400>>, <<XLM, USDCSIM, 0>>}
TrySwapInputs == {<<XLM, USDCSIM, 400>>, <<XLM, "USDC-SIM", 400>>}
DepositAmounts == {<<0, 500>>, <<500, 500>>, <<1000, 500>>}
ShareAmounts == {0, 200, 500}
TransferInputs == {<<XLM, USDCSIM, 500>>, <<USDCSIM, XLM, 1500>>, <<XLM, USDCSIM, -1>>}
TradingInputs == {<<"USD", "BTC">>, <<"BTC", "USD">>, <<"USD", "USD">>, <<"XLM", "BTC">>}
TradingAmounts == {0, 100, 1000, 1001}

\* The contract's entry points, each called by the account it acts for.
EntryPoints ==
    \/ \E t \in PoolAssets, u \in Users, a \in MintAmounts : DoMint(u, t, u, a)
    \/ \E i \in SwapInputs, u \in Users : DoSwap(u, i[1], i[2], i[3], u)
    \/ \E i \in TrySwapInputs, u \in Users : DoTrySwap(u, i[1], i[2], i[3], u)
    \/ \E d \in DepositAmounts, u \in Users : DoAddLiquidity(u, d[1], d[2], u)
    \/ \E s \in ShareAmounts, u \in Users : DoRemoveLiquidity(u, s, u)

Next == EntryPoints

Spec == Init /\ [][Next]_vars

\* The entry points, and the ledger primitives called on the aggregate directly.
NextLedger ==
    \/ EntryPoints
    \/ \E t \in PoolAssets, a \in CreditAmounts : DoCredit(t, "alice", a)
    \/ \E t \in PoolAssets, a \in DebitAmounts : DoDebit(t, "alice", a)
    \/ \E i \in TransferInputs : DoTransferAsset(i[1], i[2], "alice", i[3])

SpecLedger == Init /\ [][NextLedger]_vars

\* The entry points that act for an account, called by any address.
NextAuth ==
    \/ \E d \in DepositAmounts, c \in Users, u \in Users : DoAddLiquidity(c, d[1], d[2], u)
    \/ \E sh \in ShareAmounts, c \in Users, u \in Users : DoRemoveLiquidity(c, sh, u)
    \/ \E i \in SwapInputs, c \in Users, u \in Users : DoSwap(c, i[1], i[2], i[3], u)
    \/ \E i \in TrySwapInputs, c \in Users, u \in Users : DoTrySwap(c, i[1], i[2], i[3], u)

SpecAuth == Init /\ [][NextAuth]_vars

\* Both swap paths: the contract's swap and the token-level swap_tokens, with mint
\* to give accounts a balance of the tokens swap_tokens recognises.
NextTrading ==
    \/ \E t \in {"USD", XLM}, u \in Users, a \in MintAmounts : DoMint(u, t, u, a)
    \/ \E i \in TradingInputs, a \in TradingAmounts, u \in Users :
          DoSwapTokens(u, i[1], i[2], a)
    \/ \E i \in SwapInputs, u \in Users : DoSwap(u, i[1], i[2], i[3], u)

SpecTrading == Init /\ [][NextTrading]_vars

----------------------------------------------------------------------------
(* A sequence of mints to one (account, asset) pair *)

MintSeqAmounts == {0, 300, 1000}

MintSeqs == UNION {[1..n -> MintSeqAmounts] : n \in 0..MaxMints}

RECURSIVE SumSeq(_)
SumSeq(s) == IF s = <<>> THEN 0 ELSE s[1] + SumSeq(Tail(s))

\* The aggregate after CounterContract::mint has been called with each amount of
\* `amounts` in order; a call that panics leaves it as it was.
RECURSIVE MintAll(_, _, _, _)
MintAll(p, token, to, amounts) ==
    IF amounts = <<>> THEN p
    ELSE LET r == MintCall(p, token, to, amounts[1]) IN
         MintAll(IF r.ok THEN r.p ELSE p, token, to, Tail(amounts))

\* The orders in which n calls can be made.
Orders(n) == {f \in [1..n -> 1..n] : \A i, j \in 1..n : f[i] = f[j] => i = j}

InitMintSeq ==
    /\ portfolio \in {NewPortfolio, Funded}
    /\ env = EnvInit
    /\ \E u \in Users, t \in PoolAssets :
          last = [NoCall EXCEPT !.op = "mint_seq", !.user = u, !.to = t]
    /\ \E s \in MintSeqs : ghost = [seq |-> s, done |-> 0, start |-> portfolio]

\* The next mint of the sequence.
MintNext ==
    /\ ghost.done < Len(ghost.seq)
    /\ LET amount == ghost.seq[ghost.done + 1]
           r == MintCall(portfolio, last.to, last.user, amount) IN
       /\ portfolio' = IF r.ok THEN r.p ELSE portfolio
       /\ last' = [last EXCEPT !.op = "mint", !.caller = last.user, !.amount = amount,
                               !.ok = r.ok, !.err = r.err]
    /\ env' = env
    /\ ghost' = [ghost EXCEPT !.done = @ + 1]

SpecMintSeq == InitMintSeq /\ [][MintNext]_vars

----------------------------------------------------------------------------
(* The fee of a swap, for every tier and a range of amounts *)

FeeAmounts == 0..MaxFeeAmount

InitFee ==
    /\ portfolio = NewPortfolio
    /\ env = EnvInit
    /\ ghost = GhostInit
    /\ \E a \in FeeAmounts, tier \in Tiers :
          last = [NoCall EXCEPT !.op = "fee_input", !.from = tier, !.amount = a]

\* The fee computation of CounterContract::swap on the drawn amount and tier.
ComputeFee ==
    /\ last.op = "fee_input"
    /\ last' = [last EXCEPT !.op = "fee", !.amount2 = EffectiveFeeBps(last.from),
                            !.out = FeeAmount(last.amount, EffectiveFeeBps(last.from))]
    /\ UNCHANGED <<portfolio, env, ghost>>

SpecFee == InitFee /\ [][ComputeFee]_vars

----------------------------------------------------------------------------
(* A first deposit into the empty pool, then the withdrawal of all its shares *)

\* Largest amount of either asset a first deposit is tried with.
MaxSide == 8

\* add_liquidity while no LP token exists.
FirstDeposit ==
    /\ portfolio.total_lp_tokens = 0
    /\ last.op = "init"
    /\ \E a \in 1..MaxSide, b \in 1..MaxSide, u \in Users : DoAddLiquidity(u, a, b, u)

\* remove_liquidity of every share the deposit just minted, by the depositor.
WithdrawAll ==
    /\ last.op = "add_liquidity" /\ last.ok
    /\ DoRemoveLiquidity(last.user, last.out, last.user)

InitFirstDeposit ==
    /\ portfolio = Funded /\ env = EnvInit /\ ghost = GhostFunded /\ last = NoCall

NextFirstDeposit == FirstDeposit \/ WithdrawAll

SpecFirstDeposit == InitFirstDeposit /\ [][NextFirstDeposit]_vars

----------------------------------------------------------------------------
(* The deposit scenario: accounts mint, then one makes the first deposit *)

\* The amount the scenario mints and deposits.
ScenarioAmount == 1000

\* The aggregate after alice has minted the scenario amount of XLM only.
OnlyXlmMinted == MintCall(NewPortfolio, XLM, "alice", ScenarioAmount).p

GhostOnlyXlm == [GhostInit EXCEPT !.minted[XLM] = ScenarioAmount]

InitScenario ==
    /\ last = NoCall /\ env = EnvInit
    /\ \/ portfolio = NewPortfolio /\ ghost = GhostInit
       \/ portfolio = OnlyXlmMinted /\ ghost = GhostOnlyXlm
       \/ portfolio = Funded /\ ghost = GhostFunded

NextScenario ==
    \/ \E t \in PoolAssets, u \in Users : DoMint(u, t, u, ScenarioAmount)
    \/ \E u \in Users : DoAddLiquidity(u, ScenarioAmount, ScenarioAmount, u)

SpecScenario == InitScenario /\ [][NextScenario]_vars

----------------------------------------------------------------------------
(* Liquidity provision: deposits and withdrawals by two providers *)

\* What the second provider deposits of USDCSIM in the two-provider initial state.
SecondUsdc == 100

\* The pooled aggregate after bob has deposited next to alice, at another ratio.
TwoProvidersCall ==
    LET first == AddLiquidityCall(Funded, EnvInit, PoolAmount, PoolAmount, "alice") IN
    AddLiquidityCall(first.p, first.e, PoolAmount, SecondUsdc, "bob")

LiquidityDeposits == {<<PoolAmount, PoolAmount>>, <<PoolAmount, SecondUsdc>>, <<1, 1>>}
LiquidityShares == {0, 100, 250, 500, 600}

InitLiquidity ==
    /\ last = NoCall /\ ghost = GhostFunded
    /\ \/ portfolio = Funded /\ env = EnvInit
       \/ portfolio = PooledCall.p /\ env = PooledCall.e
       \/ portfolio = TwoProvidersCall.p /\ env = TwoProvidersCall.e

NextLiquidity ==
    \/ \E d \in LiquidityDeposits, u \in Users : DoAddLiquidity(u, d[1], d[2], u)
    \/ \E sh \in LiquidityShares, u \in Users : DoRemoveLiquidity(u, sh, u)

SpecLiquidity == InitLiquidity /\ [][NextLiquidity]_vars

----------------------------------------------------------------------------
(* The badge methods of the aggregate, called as the unit tests call them *)

\* Trades recorded per account.
MaxTrades == 11
\* Ledger heights tracked per account.
MaxHeights == 7
\* The balance recorded as an account's starting balance.
StartingBalance == 10

\* The account whose every badge threshold is driven; the others only trade.
BadgeSubject == CHOOSE u \in Users : TRUE

TradeBound(user) == IF user = BadgeSubject THEN MaxTrades ELSE MaxOps

\* The source assets of the tracked trades, in the order they are first used.
TradedSymbols == <<XLM, USDCSIM, "USDC-SIM", "USD", "BTC">>

GhostBadges == [awards |-> [u \in Users |-> [b \in Badges |-> 0]]]

\* A method call on the aggregate; `awards` are the badges for which award_badge
\* returned true during the call.
BadgeStep(op, user, q, awards) ==
    /\ portfolio' = q
    /\ env' = env
    /\ last' = [NoCall EXCEPT !.op = op, !.user = user, !.out = Cardinality(awards)]
    /\ ghost' = [ghost EXCEPT !.awards[user] =
                     [b \in Badges |-> IF b \in awards THEN @[b] + 1 ELSE @[b]]]

\* Portfolio::record_trade
DoRecordTrade(user) ==
    /\ MapGet(portfolio.trades, user, 0) < TradeBound(user)
    /\ BadgeStep("record_trade", user, RecordTrade(portfolio, user),
                 RecordTradeAwards(portfolio, user))

\* Portfolio::check_and_award_badges
DoCheckAndAwardBadges(user) ==
    BadgeStep("check_and_award_badges", user, CheckAndAwardBadges(portfolio, user),
              CheckAndAwardBadgesAwards(portfolio, user))

\* Portfolio::track_trade_for_badges, at the height last tracked or the next one.
DoTrackTradeForBadges(user) ==
    LET k == Len(MapGet(portfolio.ledger_heights_traded, user, <<>>)) IN
    \E h \in {k, k + 1} \cap (1..MaxHeights) :
        LET from == TradedSymbols[IF h < Len(TradedSymbols) THEN h ELSE Len(TradedSymbols)]
        IN BadgeStep("track_trade_for_badges", user,
                     TrackTradeForBadges(portfolio, user, from, USDCSIM, h), {})

\* Portfolio::record_lp_deposit
DoRecordLpDeposit(user) ==
    /\ MapGet(portfolio.lp_deposits_count, user, 0) < MaxOps
    /\ BadgeStep("record_lp_deposit", user, RecordLpDeposit(portfolio, user), {})

\* Portfolio::record_initial_balance
DoRecordInitialBalance(user) ==
    BadgeStep("record_initial_balance", user,
              RecordInitialBalance(portfolio, user, StartingBalance), {})

\* Portfolio::mint of WealthFactor times the starting balance
DoGain(user) ==
    LET r == Mint(portfolio, XLM, user, StartingBalance * WealthFactor) IN
    /\ MapGet(portfolio.pnl, user, 0) = 0
    /\ r.ok
    /\ BadgeStep("mint", user, r.p, {})

InitBadges ==
    /\ portfolio = NewPortfolio
    /\ env = EnvInit
    /\ last = NoCall
    /\ ghost = GhostBadges

NextBadges ==
    \/ \E u \in Users : DoRecordTrade(u)
    \/ \E u \in Users : DoCheckAndAwardBadges(u)
    \/ DoTrackTradeForBadges(BadgeSubject)
    \/ DoRecordLpDeposit(BadgeSubject)
    \/ DoRecordInitialBalance(BadgeSubject)
    \/ DoGain(BadgeSubject)

SpecBadges == InitBadges /\ [][NextBadges]_vars

----------------------------------------------------------------------------
(* One swap after another within a single rate-limit window *)

\* The amount of each swap of the series.
SeriesAmount == 10

SeriesInputs == {<<XLM, USDCSIM, SeriesAmount>>, <<XLM, USDCSIM, 2 * SeriesAmount>>}

\* CounterContract::swap, as often as the trade bound of the account allows.
DoSwapInSeries(from, to, amount, user) ==
    LET r == SwapCall(portfolio, env, from, to, amount, user) IN
    /\ MapGet(portfolio.trades, user, 0) < TradeBound(user)
    /\ portfolio' = IF r.ok THEN r.p ELSE portfolio
    /\ env' = env
    /\ last' = [NoCall EXCEPT !.op = "swap", !.caller = user, !.user = user, !.from = from,
                              !.to = to, !.amount = amount, !.amount2 = r.fee,
                              !.ok = r.ok, !.err = r.err, !.out = r.out]
    /\ ghost' = IF r.ok THEN [ghost EXCEPT !.fees[from] = @ + r.fee] ELSE ghost

InitSeries ==
    /\ portfolio = PooledCall.p
    /\ env = PooledCall.e
    /\ last = NoCall
    /\ ghost = GhostFunded

NextSeries == \E i \in SeriesInputs, u \in Users : DoSwapInSeries(i[1], i[2], i[3], u)

SpecSeries == InitSeries /\ [][NextSeries]_vars

----------------------------------------------------------------------------
(* The leaderboard at its capacity: one account more than it can hold *)

\* Accounts are numbered; the last one does not fit on a full leaderboard.
Accounts == 1..(LeaderboardCap + 1)

\* What each account mints when it first appears.
FillAmount == 10

\* Amounts minted to, and debited from, accounts that have appeared.
LaterMints == {FillAmount \div 2, 2 * FillAmount}
LaterDebits == {FillAmount}

\* The accounts PnL changes are made to once the leaderboard is full.
LaterAccounts == {1, LeaderboardCap, LeaderboardCap + 1}

\* Whether the account has an entry in the leaderboard.
OnLeaderboard(p, user) == FoundIndex(p.top_traders, user) # 0

LeaderboardStep(op, user, amount, r, counted) ==
    /\ r.ok
    /\ portfolio' = r.p
    /\ env' = env
    /\ last' = [NoCall EXCEPT !.op = op, !.user = user, !.to = XLM, !.amount = amount]
    /\ ghost' = Counted(counted, ghost)

\* Portfolio::mint to the next account that has not appeared yet.
MintToNewAccount ==
    LET n == Len(portfolio.top_traders) + 1 IN
    /\ n <= LeaderboardCap
    /\ LeaderboardStep("mint", n, FillAmount, Mint(portfolio, XLM, n, FillAmount), FALSE)

\* Portfolio::mint once the leaderboard is full.
MintLater(user, amount) ==
    /\ Len(portfolio.top_traders) = LeaderboardCap
    /\ ghost.ops < MaxOps
    /\ LeaderboardStep("mint", user, amount, Mint(portfolio, XLM, user, amount), TRUE)

\* Portfolio::debit once the leaderboard is full.
DebitLater(user, amount) ==
    /\ Len(portfolio.top_traders) = LeaderboardCap
    /\ ghost.ops < MaxOps
    /\ LeaderboardStep("debit", user, amount, Debit(portfolio, XLM, user, amount), TRUE)

InitLeaderboard ==
    /\ portfolio = NewPortfolio
    /\ env = EnvInit
    /\ last = NoCall
    /\ ghost = GhostInit

NextLeaderboard ==
    \/ MintToNewAccount
    \/ \E u \in LaterAccounts, a \in LaterMints : MintLater(u, a)
    \/ \E u \in LaterAccounts, a \in LaterDebits : DebitLater(u, a)

SpecLeaderboard == InitLeaderboard /\ [][NextLeaderboard]_vars

----------------------------------------------------------------------------
(* Deposits and withdrawals while the ledger time advances *)

NextLpWindow == NextLiquidity \/ Tick

SpecLpWindow == InitLiquidity /\ [][NextLpWindow]_vars

----------------------------------------------------------------------------
(* Batch executor: batch.rs is not among the sources; the two executors the
   contract calls are modelled from the specification (section 4.8).  The
   entry points around them are those of lib.rs. *)

\* Operations per batch.
MaxBatchLen == 3

\* A batch operation: a mint of `to` to the user, or a transfer of the user's
\* balance from one asset to another.
BatchOp(kind, from, to, user, amount) ==
    [kind |-> kind, from |-> from, to |-> to, user |-> user, amount |-> amount]

\* One operation of a batch against the live aggregate: [ok, err, p]; a failed
\* operation leaves the aggregate as it was.
ExecuteOperation(p, op) ==
    LET r == IF op.kind = "mint" THEN Mint(p, op.to, op.user, op.amount)
             ELSE TransferAsset(p, op.from, op.to, op.user, op.amount)
    IN IF r.ok THEN r ELSE Panic(r.err, p)

\* BatchResult::new
NewBatchResult == [operations_succeeded |-> 0, operations_failed |-> 0]

\* The operations from index i on, applied in order up to the first failure:
\* the live aggregate, and whether an operation failed.
RECURSIVE AtomicRun(_, _, _)
AtomicRun(p, operations, i) ==
    IF i > Len(operations) THEN [failed |-> FALSE, p |-> p]
    ELSE LET r == ExecuteOperation(p, operations[i]) IN
         IF r.ok THEN AtomicRun(r.p, operations, i + 1)
         ELSE [failed |-> TRUE, p |-> p]

\* batch::execute_batch_atomic: on the first failure the result reports no
\* success and every operation as failed; the live aggregate keeps what the
\* earlier operations did to it, for the caller to discard.
ExecuteBatchAtomic(p, operations) ==
    LET run == AtomicRun(p, operations, 1) IN
    [tag |-> "Ok",
     res |-> IF run.failed
               THEN [NewBatchResult EXCEPT !.operations_failed = Len(operations)]
               ELSE [NewBatchResult EXCEPT !.operations_succeeded = Len(operations)],
     p |-> run.p]

\* batch::execute_batch_best_effort: every operation is attempted, from index i
\* on; `res` counts the outcomes.
RECURSIVE BestEffortRun(_, _, _, _)
BestEffortRun(p, operations, i, res) ==
    IF i > Len(operations) THEN [tag |-> "Ok", res |-> res, p |-> p]
    ELSE LET r == ExecuteOperation(p, operations[i]) IN
         IF r.ok
           THEN BestEffortRun(r.p, operations, i + 1,
                              [res EXCEPT !.operations_succeeded = @ + 1])
           ELSE BestEffortRun(p, operations, i + 1,
                              [res EXCEPT !.operations_failed = @ + 1])

ExecuteBatchBestEffort(p, operations) == BestEffortRun(p, operations, 1, NewBatchResult)

\* The two arms of the entry points: on Ok the live aggregate is stored and the
\* result returned; on Err nothing is stored and one failure is reported.
StoreOnOk(p, result) ==
    IF result.tag = "Ok"
      THEN [res |-> result.res, p |-> result.p]
      ELSE [res |-> [NewBatchResult EXCEPT !.operations_failed = 1], p |-> p]

\* An entry point that reports the Err arm's result whenever an operation failed.
ExecuteBatchAtomicCallOneFailure(p, operations) ==
    LET stored == StoreOnOk(p, ExecuteBatchAtomic(p, operations)) IN
    IF stored.res.operations_failed > 0
      THEN [stored EXCEPT !.res.operations_failed = 1]
      ELSE stored

\* CounterContract::execute_batch_atomic: [res, p], p the aggregate in storage.
ExecuteBatchAtomicCall(p, operations) == StoreOnOk(p, ExecuteBatchAtomic(p, operations))

\* An entry point that stores only when no operation failed.
ExecuteBatchBestEffortCallAllOrNothing(p, operations) ==
    LET stored == StoreOnOk(p, ExecuteBatchBestEffort(p, operations)) IN
    IF stored.res.operations_failed > 0 THEN [stored EXCEPT !.p = p] ELSE stored

\* CounterContract::execute_batch_best_effort
ExecuteBatchBestEffortCall(p, operations) ==
    StoreOnOk(p, ExecuteBatchBestEffort(p, operations))

BatchAmount == 500

\* The operations batches are made of: two that can succeed and two that fail
\* (a negative mint; a transfer of more than an account is ever given).
BatchOps ==
    LET u == CHOOSE x \in Users : TRUE IN
    { BatchOp("mint", "-", XLM, u, BatchAmount),
      BatchOp("mint", "-", XLM, u, -1),
      BatchOp("transfer", XLM, USDCSIM, u, BatchAmount),
      BatchOp("transfer", USDCSIM, XLM, u, IntMax) }

Batches == UNION {[1..n -> BatchOps] : n \in 1..MaxBatchLen}

GhostBatch ==
    [minted |-> GhostInit.minted, fees |-> GhostInit.fees, ops |-> 0, batch |-> <<>>]

BatchStep(op, operations, r) ==
    /\ ghost.ops < MaxOps
    /\ portfolio' = r.p
    /\ env' = env
    /\ last' = [NoCall EXCEPT !.op = op, !.amount = Len(operations),
                              !.out = r.res.operations_succeeded,
                              !.out2 = r.res.operations_failed]
    /\ ghost' = [ghost EXCEPT !.ops = @ + 1, !.batch = operations]

DoExecuteBatchAtomic(operations) ==
    BatchStep("execute_batch_atomic", operations,
              ExecuteBatchAtomicCall(portfolio, operations))

DoExecuteBatchBestEffort(operations) ==
    BatchStep("execute_batch_best_effort", operations,
              ExecuteBatchBestEffortCall(portfolio, operations))

InitBatch ==
    /\ portfolio = NewPortfolio
    /\ env = EnvInit
    /\ last = NoCall
    /\ ghost = GhostBatch

NextBatch ==
    \/ \E operations \in Batches : DoExecuteBatchAtomic(operations)
    \/ \E operations \in Batches : DoExecuteBatchBestEffort(operations)

SpecBatch == InitBatch /\ [][NextBatch]_vars

----------------------------------------------------------------------------
(* The ledger methods of the aggregate on every (user, asset) key *)

KeyAmounts == {-1, 0, PoolAmount}

\* The history of a behaviour: per user the amounts credited minus the amounts
\* debited, and the keys that were ever credited.
GhostKeys ==
    [minted |-> GhostInit.minted, fees |-> GhostInit.fees, ops |-> 0,
     net |-> [u \in Users |-> 0], credited |-> {}]

\* A ledger call with result r; `delta` is what it credits to the user less
\* what it debits, `keys` the keys it credits.
KeyStep(op, from, token, user, amount, r, delta, keys) ==
    /\ r.p # portfolio => ghost.ops < MaxOps
    /\ portfolio' = r.p
    /\ env' = env
    /\ last' = [NoCall EXCEPT !.op = op, !.user = user, !.from = from, !.to = token,
                              !.amount = amount, !.ok = r.ok, !.err = r.err]
    /\ ghost' = [Counted(r.p # portfolio, ghost) EXCEPT
                    !.net[user] = IF r.ok THEN @ + delta ELSE @,
                    !.credited = IF r.ok /\ amount > 0 THEN @ \cup keys ELSE @]

\* Portfolio::mint
KeyMint(token, user, amount) ==
    KeyStep("mint", "-", token, user, amount, Mint(portfolio, token, user, amount),
            amount, {<<user, token>>})

\* Portfolio::credit
KeyCredit(token, user, amount) ==
    KeyStep("credit", "-", token, user, amount, Credit(portfolio, token, user, amount),
            amount, {<<user, token>>})

\* Portfolio::debit
KeyDebit(token, user, amount) ==
    KeyStep("debit", "-", token, user, amount, Debit(portfolio, token, user, amount),
            0 - amount, {})

\* Portfolio::transfer_asset: the amount is debited and credited.
KeyTransferAsset(from_token, to_token, user, amount) ==
    KeyStep("transfer_asset", from_token, to_token, user, amount,
            TransferAsset(portfolio, from_token, to_token, user, amount),
            0, {<<user, to_token>>})

InitKeys ==
    /\ portfolio = NewPortfolio
    /\ env = EnvInit
    /\ last = NoCall
    /\ ghost = GhostKeys

NextKeys ==
    \/ \E t \in PoolAssets, u \in Users, a \in KeyAmounts : KeyMint(t, u, a)
    \/ \E t \in PoolAssets, u \in Users, a \in KeyAmounts : KeyCredit(t, u, a)
    \/ \E t \in PoolAssets, u \in Users, a \in KeyAmounts : KeyDebit(t, u, a)
    \/ \E f \in PoolAssets, t \in PoolAssets, u \in Users, a \in KeyAmounts :
          f # t /\ KeyTransferAsset(f, t, u, a)

SpecKeys == InitKeys /\ [][NextKeys]_vars

----------------------------------------------------------------------------
(* Properties *)

\* What all accounts together hold of an asset.
UserTotal(p, token) == SumOver([u \in Users |-> BalanceOf(p, token, u)], Users)

\* C1: after any sequence of mint, credit, debit, transfer_asset, swap,
\* add_liquidity and remove_liquidity calls, every (account, asset) balance the
\* ledger holds is non-negative.
C1_BalancesNonNegative ==
    /\ \A k \in DOMAIN portfolio.balances :
          InvariantNonNegativeBalances(portfolio.balances[k])
    /\ \A u \in Users, t \in AllTokens :
          InvariantNonNegativeBalances(BalanceOf(portfolio, t, u))

\* C1 witness: a debit has just taken an account's whole balance of an asset.
C1_DebitToZero ==
    /\ last.op = "debit" /\ last.ok /\ last.amount > 0
    /\ BalanceOf(portfolio, last.from, last.user) = 0

\* C2: a debit whose amount exceeds the account's balance of the asset fails, and
\* the balance, the PnL and every other balance stay as they were.
C2_OverdrawFails ==
    [][ (last'.op = "debit" /\ last'.amount > BalanceOf(portfolio, last'.from, last'.user))
          => /\ ~last'.ok
             /\ last'.err = "Insufficient funds"
             /\ portfolio'.balances = portfolio.balances
             /\ portfolio'.pnl = portfolio.pnl
             /\ portfolio' = portfolio ]_vars

\* C2 witness: a debit of more than the account holds has been refused.
C2_OverdrawRefused ==
    /\ last.op = "debit" /\ ~last.ok /\ last.err = "Insufficient funds"
    /\ last.amount > BalanceOf(portfolio, last.from, last.user)
    /\ last.amount > 0

\* C3: after the first n mints of a sequence to one (account, asset) pair the
\* balance is the starting balance plus the sum of the n amounts, and minting the
\* same amounts in any other order gives the same balance.
C3_MintSumAnyOrder ==
    LET applied == SubSeq(ghost.seq, 1, ghost.done)
        n == Len(applied)
        t == last.to
        u == last.user
    IN /\ BalanceOf(portfolio, t, u) = BalanceOf(ghost.start, t, u) + SumSeq(applied)
       /\ \A o \in Orders(n) :
             BalanceOf(MintAll(ghost.start, t, u, [i \in 1..n |-> applied[o[i]]]), t, u)
               = BalanceOf(portfolio, t, u)

\* C3 witness: a whole sequence of different positive amounts has been minted onto
\* a balance that was not zero.
C3_SequenceMinted ==
    /\ last.op = "mint" /\ ghost.done = Len(ghost.seq) /\ ghost.done >= 2
    /\ ghost.seq[1] # ghost.seq[2] /\ ghost.seq[1] > 0 /\ ghost.seq[2] > 0
    /\ BalanceOf(ghost.start, last.to, last.user) > 0

C5_CallerIsAccount ==
    [][ (/\ last'.op \in {"swap", "try_swap", "add_liquidity", "remove_liquidity"}
         /\ last'.caller # last'.user)
          => (~last'.ok /\ portfolio' = portfolio /\ env' = env) ]_vars

\* C6: a swap of 100 units of A for B by an account whose balance of A is zero
\* fails with InsufficientBalance and leaves all state as it was.
C6_EmptyAccountSwapFails ==
    [][ (/\ last'.op \in {"swap", "swap_tokens"}
         /\ last'.amount = 100
         /\ last'.from # last'.to
         /\ (last'.op = "swap" => last'.from \in PoolAssets /\ last'.to \in PoolAssets)
         /\ (last'.op = "swap_tokens" => IsValidSwapPair(last'.from, last'.to))
         /\ BalanceOf(portfolio, last'.from, last'.user) = 0)
          => (~last'.ok /\ last'.err = "InsufficientBalance" /\ portfolio' = portfolio) ]_vars

\* C7: a successful swap lowers the caller's balance of the from asset by exactly
\* the amount: the fee and the remainder are taken once.
C7_FromDebitedOnce ==
    [][ (last'.op = "swap" /\ last'.ok)
          => BalanceOf(portfolio', last'.from, last'.user)
               = BalanceOf(portfolio, last'.from, last'.user) - last'.amount ]_vars

C10_SwapFailureKinds ==
    [][ last'.op = "swap_tokens"
          => /\ (last'.amount <= 0 => last'.err = "ZeroAmountSwap")
             /\ (/\ last'.amount > 0
                 /\ \/ last'.from = last'.to
                    \/ ~IsValidToken(last'.from)
                    \/ ~IsValidToken(last'.to))
                  => last'.err = "InvalidSwapPair"
             /\ (/\ last'.amount > 0
                 /\ IsValidSwapPair(last'.from, last'.to)
                 /\ BalanceOf(portfolio, last'.from, last'.user) < last'.amount)
                  => last'.err = "InsufficientBalance"
             /\ (~last'.ok => portfolio'.balances = portfolio.balances) ]_vars

\* C11: try_swap never propagates a failure: whenever the swap cannot be performed
\* (an asset try_swap does not recognize, the same asset on both sides, an amount
\* of zero or less, or a from balance below the amount) it returns 0, raises the
\* failed-order counter by exactly 1 and leaves balances and reserves as they were.
C11_TrySwapHidesFailure ==
    [][ (/\ last'.op = "try_swap"
         /\ \/ last'.from \notin {XLM, "USDC-SIM"}
            \/ last'.to \notin {XLM, "USDC-SIM"}
            \/ last'.from = last'.to
            \/ last'.amount <= 0
            \/ BalanceOf(portfolio, last'.from, last'.user) < last'.amount)
          => /\ last'.ok
             /\ last'.out = 0
             /\ portfolio'.metrics.failed_orders = portfolio.metrics.failed_orders + 1
             /\ portfolio'.balances = portfolio.balances
             /\ portfolio'.xlm_in_pool = portfolio.xlm_in_pool
             /\ portfolio'.usdc_in_pool = portfolio.usdc_in_pool ]_vars

\* C12: a first deposit add_liquidity(a, b) with a > 0 and b > 0 mints the integer
\* square root of a * b, the largest s with s * s <= a * b.
C12_FirstDepositIsSqrt ==
    (last.op = "add_liquidity" /\ last.ok /\ portfolio.total_lp_tokens = last.out)
      => /\ last.out * last.out <= last.amount * last.amount2
         /\ (last.out + 1) * (last.out + 1) > last.amount * last.amount2

\* C15: withdrawing all the shares of a first deposit (a, b) right after it
\* succeeds and returns (x, y) with x <= a and y <= b.
C15_RoundTripNeverGains ==
    [][ (/\ last.op = "add_liquidity" /\ last.ok
         /\ portfolio.total_lp_tokens = last.out
         /\ last'.op = "remove_liquidity"
         /\ last'.user = last.user
         /\ last'.amount = last.out)
          => /\ last'.ok
             /\ last'.out <= last.amount
             /\ last'.out2 <= last.amount2 ]_vars

\* C15 witness: all shares of a first deposit have been withdrawn and both assets
\* came back.
C15_AllSharesWithdrawn ==
    /\ last.op = "remove_liquidity" /\ last.ok
    /\ last.out > 0 /\ last.out2 > 0 /\ last.out # last.out2
    /\ portfolio.total_lp_tokens = 0
    /\ portfolio.xlm_in_pool = 0 /\ portfolio.usdc_in_pool = 0

\* C13 as stated: an account that mints 1000 of XLM and then calls
\* add_liquidity(1000, 1000) as the first depositor receives 1000 shares, the
\* reserves become (1000, 1000) and the total LP supply 1000.
C13_AfterMintOfOneAsset ==
    [][ (/\ last.op = "mint" /\ last.ok /\ last.to = XLM /\ last.amount = 1000
         /\ portfolio.total_lp_tokens = 0
         /\ last'.op = "add_liquidity" /\ last'.user = last.user
         /\ last'.amount = 1000 /\ last'.amount2 = 1000)
          => /\ last'.ok /\ last'.out = 1000
             /\ portfolio'.xlm_in_pool = 1000 /\ portfolio'.usdc_in_pool = 1000
             /\ portfolio'.total_lp_tokens = 1000 ]_vars

\* C13 amended: an account that holds at least 1000 of each reserve asset and
\* calls add_liquidity(1000, 1000) as the first depositor, into an empty pool
\* and before any liquidity operation, receives 1000 shares; the reserves
\* become (1000, 1000) and the total LP supply 1000.
C13_FirstDepositOfThousand ==
    [][ (/\ last'.op = "add_liquidity"
         /\ last'.amount = 1000 /\ last'.amount2 = 1000
         /\ portfolio.total_lp_tokens = 0
         /\ portfolio.xlm_in_pool = 0 /\ portfolio.usdc_in_pool = 0
         /\ env.lp_buckets = EmptyMap
         /\ BalanceOf(portfolio, XLM, last'.user) >= 1000
         /\ BalanceOf(portfolio, USDCSIM, last'.user) >= 1000)
          => /\ last'.ok /\ last'.out = 1000
             /\ portfolio'.xlm_in_pool = 1000 /\ portfolio'.usdc_in_pool = 1000
             /\ portfolio'.total_lp_tokens = 1000 ]_vars

\* C13 witness: the first deposit of (1000, 1000) has minted 1000 shares.
C13_ThousandSharesMinted ==
    /\ last.op = "add_liquidity" /\ last.ok
    /\ last.amount = 1000 /\ last.amount2 = 1000 /\ last.out = 1000
    /\ portfolio.total_lp_tokens = 1000
    /\ portfolio.xlm_in_pool = 1000 /\ portfolio.usdc_in_pool = 1000

\* The position an account holds, all zero when it has none.
PositionOf(p, user) == MapGet(p.lp_positions, user, NoPosition)

\* C14: a deposit add_liquidity(a, b) into a pool whose total LP supply is above
\* zero mints min(floor(a * supply / reserve_a), floor(b * supply / reserve_b))
\* shares, and fails with no state change when that value is zero or less.
C14_ProportionalShares ==
    [][ (/\ last'.op = "add_liquidity"
         /\ last'.amount > 0 /\ last'.amount2 > 0
         /\ portfolio.total_lp_tokens > 0
         /\ portfolio.xlm_in_pool > 0 /\ portfolio.usdc_in_pool > 0)
          => LET supply == portfolio.total_lp_tokens
                 by_xlm == (last'.amount * supply) \div portfolio.xlm_in_pool
                 by_usdc == (last'.amount2 * supply) \div portfolio.usdc_in_pool
                 shares == IF by_xlm <= by_usdc THEN by_xlm ELSE by_usdc
             IN /\ last'.ok
                  => /\ last'.out = shares
                     /\ portfolio'.total_lp_tokens = supply + shares
                     /\ PositionOf(portfolio', last'.user).lp_tokens_minted
                          = PositionOf(portfolio, last'.user).lp_tokens_minted + shares
                /\ shares <= 0
                  => (~last'.ok /\ portfolio' = portfolio /\ env' = env) ]_vars

\* C14 witness: a later deposit whose two proportional shares differ has minted
\* the smaller one.
C14_SmallerShareMinted ==
    /\ last.op = "add_liquidity" /\ last.ok
    /\ portfolio.total_lp_tokens > last.out
    /\ last.out > 0 /\ last.out < last.amount

\* C16: remove_liquidity succeeds only for shares above zero, at most the shares
\* the account holds, and a total supply above zero; it then returns
\* floor(shares * reserve / supply) of each asset, takes exactly that from each
\* reserve and adds it to the account's balance, and lowers the account's shares
\* and the total supply by exactly the shares.
C16_WithdrawalAccounting ==
    [][ (last'.op = "remove_liquidity" /\ last'.ok)
          => LET u == last'.user
                 shares == last'.amount
                 supply == portfolio.total_lp_tokens
                 x == (shares * portfolio.xlm_in_pool) \div supply
                 y == (shares * portfolio.usdc_in_pool) \div supply
             IN /\ shares > 0
                /\ shares <= PositionOf(portfolio, u).lp_tokens_minted
                /\ supply > 0
                /\ last'.out = x /\ last'.out2 = y
                /\ portfolio'.xlm_in_pool = portfolio.xlm_in_pool - x
                /\ portfolio'.usdc_in_pool = portfolio.usdc_in_pool - y
                /\ BalanceOf(portfolio', XLM, u) = BalanceOf(portfolio, XLM, u) + x
                /\ BalanceOf(portfolio', USDCSIM, u) = BalanceOf(portfolio, USDCSIM, u) + y
                /\ PositionOf(portfolio', u).lp_tokens_minted
                     = PositionOf(portfolio, u).lp_tokens_minted - shares
                /\ portfolio'.total_lp_tokens = supply - shares ]_vars

\* C16 witness: part of a position has been withdrawn, with an amount rounded down.
C16_PartialWithdrawalRounded ==
    /\ last.op = "remove_liquidity" /\ last.ok
    /\ PositionOf(portfolio, last.user).lp_tokens_minted > 0
    /\ last.out # last.out2
    /\ portfolio.total_lp_tokens > 0
    /\ (last.amount * (portfolio.xlm_in_pool + last.out))
         % (portfolio.total_lp_tokens + last.amount) # 0

\* A remove_liquidity call that reaches the sanity bound: the position exists,
\* the shares are valid and both computed amounts are above zero.
ReachesBound ==
    /\ last'.op = "remove_liquidity"
    /\ last'.user \in DOMAIN portfolio.lp_positions
    /\ last'.amount > 0
    /\ last'.amount <= PositionOf(portfolio, last'.user).lp_tokens_minted
    /\ portfolio.total_lp_tokens > 0
    /\ (last'.amount * portfolio.xlm_in_pool) \div portfolio.total_lp_tokens > 0
    /\ (last'.amount * portfolio.usdc_in_pool) \div portfolio.total_lp_tokens > 0

\* Either computed amount is more than 1% above the deposit the position records.
OverRecordedDeposit ==
    LET pos == PositionOf(portfolio, last'.user)
        x == (last'.amount * portfolio.xlm_in_pool) \div portfolio.total_lp_tokens
        y == (last'.amount * portfolio.usdc_in_pool) \div portfolio.total_lp_tokens
    IN x * 100 > pos.xlm_deposited * 101 \/ y * 100 > pos.usdc_deposited * 101

C19_SupplyIsSumOfPositions ==
    portfolio.total_lp_tokens
      = SumOver([u \in DOMAIN portfolio.lp_positions |->
                    portfolio.lp_positions[u].lp_tokens_minted],
                DOMAIN portfolio.lp_positions)

\* C19 witness: two accounts hold shares after one of them withdrew some.
C19_TwoHoldersAfterWithdrawal ==
    /\ last.op = "remove_liquidity" /\ last.ok
    /\ \A u \in Users : PositionOf(portfolio, u).lp_tokens_minted > 0

\* Whether check_and_award_badges calls award_badge for this badge kind.
BadgeDue(p, user, badge) ==
    CASE badge = "Trader" -> MapGet(p.trades, user, 0) >= TraderTrades
      [] badge = "WealthBuilder" ->
             /\ MapGet(p.initial_balances, user, 0) > 0
             /\ GetTotalUserBalance(p, user) >=
                    MapGet(p.initial_balances, user, 0) * WealthFactor
      [] badge = "LiquidityProvider" -> MapGet(p.lp_deposits_count, user, 0) >= 1
      [] badge = "Diversifier" ->
             Len(MapGet(p.token_pairs_traded, user, <<>>)) >= DiversifierPairs
      [] badge = "Consistency" ->
             Len(MapGet(p.ledger_heights_traded, user, <<>>)) >= ConsistencyHeights
      [] OTHER -> FALSE

\* A vector without repeated elements.
NoRepeats(vec) == \A i, j \in 1..Len(vec) : vec[i] = vec[j] => i = j

\* C20: badge awarding is idempotent.  However often record_trade and
\* check_and_award_badges are called, award_badge has returned true exactly once
\* for every badge an account holds and never for a badge it does not hold; the
\* first trade gives FirstTrade, and a check_and_award_badges call leaves every
\* badge held whose threshold is met; get_user_badges, in either of its two
\* definitions, returns at most 6 badges, none of them twice, and only badges held.
C20_BadgesAwardedOnce ==
    \A u \in Users :
        /\ \A b \in Badges :
               /\ ghost.awards[u][b] = IF HasBadge(portfolio, u, b) THEN 1 ELSE 0
               /\ (last.op = "check_and_award_badges" /\ last.user = u
                     /\ BadgeDue(portfolio, u, b)) => HasBadge(portfolio, u, b)
        /\ MapGet(portfolio.trades, u, 0) >= 1 => HasBadge(portfolio, u, "FirstTrade")
        /\ Len(GetUserBadges(portfolio, u)) <= 6
        /\ NoRepeats(GetUserBadges(portfolio, u))
        /\ {GetUserBadges(portfolio, u)[i] : i \in 1..Len(GetUserBadges(portfolio, u))}
              = {b \in Badges : HasBadge(portfolio, u, b)}
        /\ Len(GetUserBadgesFirstTradeOnly(portfolio, u)) <= 6
        /\ NoRepeats(GetUserBadgesFirstTradeOnly(portfolio, u))
        /\ \A i \in 1..Len(GetUserBadgesFirstTradeOnly(portfolio, u)) :
               HasBadge(portfolio, u, GetUserBadgesFirstTradeOnly(portfolio, u)[i])

\* C20 witness: check_and_award_badges is called again for an account that met
\* the Trader threshold and already holds the badge, and awards nothing.
C20_TraderCheckedAgain ==
    /\ last.op = "check_and_award_badges" /\ last.out = 0
    /\ MapGet(portfolio.trades, last.user, 0) > TraderTrades
    /\ ghost.awards[last.user]["Trader"] = 1
    /\ ghost.awards[last.user]["FirstTrade"] = 1
    /\ Len(GetUserBadges(portfolio, last.user)) >= 2

\* C21: after ten successful swaps an account holds the Trader badge, and it
\* holds the FirstTrade badge from its first successful swap onwards.
C21_TraderBadgeAfterTenSwaps ==
    \A u \in Users :
        /\ MapGet(portfolio.trades, u, 0) >= 1 => HasBadge(portfolio, u, "FirstTrade")
        /\ MapGet(portfolio.trades, u, 0) >= TraderTrades => HasBadge(portfolio, u, "Trader")

\* C24: once an account has made as many successful swaps within the window as
\* its tier allows, its next swap within the window is rejected with RATELIMIT
\* and changes nothing.  (Time stands still in SpecSeries, so every swap falls
\* into one window and the trade count is the number of swaps in it.)
C24_SwapRateLimited ==
    [][(/\ last'.op = "swap"
        /\ MapGet(portfolio.trades, last'.user, 0)
              >= SwapMax(GetUserTier(portfolio, last'.user)))
       => (~last'.ok /\ last'.err = "RATELIMIT" /\ portfolio' = portfolio)]_vars

\* C22: after any sequence of mints and debits the leaderboard is sorted by the
\* PnL recorded in its entries, in descending order, and holds at most
\* LeaderboardCap entries.
C22_LeaderboardSortedAndBounded ==
    /\ Len(portfolio.top_traders) <= LeaderboardCap
    /\ \A i \in 1..(Len(portfolio.top_traders) - 1) :
           portfolio.top_traders[i][2] >= portfolio.top_traders[i + 1][2]

\* C22 witness: on a full leaderboard the account that was outside has taken
\* the last entry and the sort has moved it to the front.
C22_NewcomerSortedToFront ==
    /\ Len(portfolio.top_traders) = LeaderboardCap
    /\ last.op = "mint" /\ last.user = LeaderboardCap + 1
    /\ portfolio.top_traders[1][1] = LeaderboardCap + 1
    /\ portfolio.top_traders[1][2] > portfolio.top_traders[2][2]

\* C23: the leaderboard holds the true top accounts by current PnL: no observed
\* account outside it has a PnL strictly greater than an account inside it.
C23_LeaderboardHoldsTopAccounts ==
    \A outside \in DOMAIN portfolio.pnl, inside \in DOMAIN portfolio.pnl :
        (~OnLeaderboard(portfolio, outside) /\ OnLeaderboard(portfolio, inside))
          => portfolio.pnl[outside] <= portfolio.pnl[inside]

\* C25: when the liquidity bucket of an account already counts, within the
\* current window, as many operations as its tier allows, the next add_liquidity
\* or remove_liquidity of the account is rejected and changes nothing.
C25_LiquidityRateLimited ==
    [][(/\ last'.op \in {"add_liquidity", "remove_liquidity"}
        /\ CurrentBucket(env.lp_buckets, last'.user, env.timestamp).count
              >= LpMax(GetUserTier(portfolio, last'.user)))
       => (~last'.ok /\ portfolio' = portfolio /\ env' = env)]_vars

\* Whether some operation of the batch fails when the operations are applied in
\* order, from the first one on, to the aggregate p.
RECURSIVE SomeOperationFails(_, _)
SomeOperationFails(p, operations) ==
    IF operations = <<>> THEN FALSE
    ELSE LET r == ExecuteOperation(p, Head(operations)) IN
         ~r.ok \/ SomeOperationFails(r.p, Tail(operations))

\* The aggregate after exactly the successful operations, in order.
RECURSIVE ApplySuccessful(_, _)
ApplySuccessful(p, operations) ==
    IF operations = <<>> THEN p
    ELSE LET r == ExecuteOperation(p, Head(operations)) IN
         ApplySuccessful(IF r.ok THEN r.p ELSE p, Tail(operations))

\* How many operations succeed when each is attempted in order.
RECURSIVE CountSuccessful(_, _)
CountSuccessful(p, operations) ==
    IF operations = <<>> THEN 0
    ELSE LET r == ExecuteOperation(p, Head(operations)) IN
         IF r.ok THEN 1 + CountSuccessful(r.p, Tail(operations))
         ELSE CountSuccessful(p, Tail(operations))

\* C26: an atomic batch in which an operation fails leaves the aggregate in
\* storage exactly as it was before the batch.
C26_AtomicBatchAllOrNothing ==
    [][(last'.op = "execute_batch_atomic" /\ SomeOperationFails(portfolio, ghost'.batch))
       => portfolio' = portfolio]_vars

C29_PnlIsCreditsMinusDebits ==
    \A u \in Users : MapGet(portfolio.pnl, u, 0) = ghost.net[u]

\* C30: a mint, credit or debit on one (user, asset) key leaves the balance of
\* every other key as it was, and balance_of is 0 for every key that was never
\* credited.
C30_KeysIsolated ==
    [][/\ last'.op \in {"mint", "credit", "debit"}
          => \A u \in Users, t \in AllTokens :
                 <<u, t>> # <<last'.user, last'.to>>
                   => BalanceOf(portfolio', t, u) = BalanceOf(portfolio, t, u)
       /\ \A u \in Users, t \in AllTokens :
              <<u, t>> \notin ghost'.credited => BalanceOf(portfolio', t, u) = 0]_vars

\* C30 witness: one user's balance of an asset was credited while the other user
\* holds the same asset and the first user was never credited the other asset.
C30_CreditedNextToOtherKeys ==
    /\ last.op = "credit" /\ last.ok /\ last.amount > 0
    /\ \E u \in Users \ {last.user} : BalanceOf(portfolio, last.to, u) > 0
    /\ \E t \in PoolAssets : <<last.user, t>> \notin ghost.credited

----------------------------------------------------------------------------
(* Administration: the stored admin and the pause flag *)

\* No address is stored under ADMIN_KEY.
NoAdmin == "none"

\* Persistent storage next to the ledger clock: ADMIN_KEY and PAUSED_KEY.  A
\* missing PAUSED_KEY reads as false (unwrap_or(false)), so the flag starts false.
EnvAdmin(e, admin) == e @@ [admin |-> admin, paused |-> FALSE]

\* admin::is_admin with a missing admin accepted (unwrap_or(true)).
IsAdminUnwrapTrue(e, user) == e.admin = NoAdmin \/ e.admin = user

\* admin::is_admin
IsAdmin(e, user) == IF e.admin = NoAdmin THEN FALSE ELSE e.admin = user

\* admin::require_admin: "ok" or the error
RequireAdmin(e, caller) == IF IsAdmin(e, caller) THEN "ok" ELSE "NotAdmin"

\* pause_trading: [ok, err, e]
PauseTrading(e, caller) ==
    LET err == RequireAdmin(e, caller) IN
    IF err # "ok" THEN [ok |-> FALSE, err |-> err, e |-> e]
    ELSE [ok |-> TRUE, err |-> "ok", e |-> [e EXCEPT !.paused = TRUE]]

\* resume_trading: [ok, err, e]
ResumeTrading(e, caller) ==
    LET err == RequireAdmin(e, caller) IN
    IF err # "ok" THEN [ok |-> FALSE, err |-> err, e |-> e]
    ELSE [ok |-> TRUE, err |-> "ok", e |-> [e EXCEPT !.paused = FALSE]]

\* set_admin: [ok, err, e]
SetAdmin(e, caller, new_admin) ==
    LET err == RequireAdmin(e, caller) IN
    IF err # "ok" THEN [ok |-> FALSE, err |-> err, e |-> e]
    ELSE [ok |-> TRUE, err |-> "ok", e |-> [e EXCEPT !.admin = new_admin]]

\* trading::swap (src/trading.rs 6-17): the pause guard; the swap logic behind
\* the guard is not part of the function as it stands, so passing the guard is
\* all a call does.
TradingSwap(e, user, amount) == IF e.paused THEN "TradingPaused" ELSE "ok"

\* History kept next to the usual one: the admin replaced by the last set_admin.
GhostAdmin == GhostFunded @@ [former |-> NoAdmin]

AdminStep(op, caller, new_admin, r) ==
    /\ portfolio' = portfolio
    /\ env' = r.e
    /\ last' = [NoCall EXCEPT !.op = op, !.caller = caller, !.user = new_admin,
                              !.ok = r.ok, !.err = r.err]
    /\ ghost' = IF op = "set_admin" /\ r.ok THEN [ghost EXCEPT !.former = env.admin]
                                             ELSE ghost

DoPauseTrading(caller) == AdminStep("pause_trading", caller, "-", PauseTrading(env, caller))

DoResumeTrading(caller) ==
    AdminStep("resume_trading", caller, "-", ResumeTrading(env, caller))

DoSetAdmin(caller, new_admin) ==
    AdminStep("set_admin", caller, new_admin, SetAdmin(env, caller, new_admin))

DoTradingSwap(user, amount) ==
    LET err == TradingSwap(env, user, amount) IN
    /\ last' = [NoCall EXCEPT !.op = "trading_swap", !.caller = user, !.user = user,
                              !.amount = amount, !.ok = (err = "ok"), !.err = err]
    /\ UNCHANGED <<portfolio, env, ghost>>

\* The pooled contract, with no admin stored or with one of the users as admin.
InitAdmin ==
    /\ portfolio = PooledCall.p
    /\ \E a \in Users \cup {NoAdmin} : env = EnvAdmin(PooledCall.e, a)
    /\ last = NoCall
    /\ ghost = GhostAdmin

NextAdmin ==
    \/ \E c \in Users : DoPauseTrading(c)
    \/ \E c \in Users : DoResumeTrading(c)
    \/ \E c \in Users, n \in Users : DoSetAdmin(c, n)
    \/ \E u \in Users : DoTradingSwap(u, SeriesAmount)
    \/ \E i \in TrySwapInputs, u \in Users : DoSwap(u, i[1], i[2], i[3], u)
    \/ \E i \in TrySwapInputs, u \in Users : DoTrySwap(u, i[1], i[2], i[3], u)

SpecAdmin == InitAdmin /\ [][NextAdmin]_vars

\* C31: while trading is paused no swap entry point succeeds or changes the
\* persisted aggregate; every swap attempt returns TradingPaused.
C31_NoSwapWhilePaused ==
    [][(env.paused /\ last'.op \in {"swap", "try_swap", "trading_swap"})
          => (~last'.ok /\ last'.err = "TradingPaused" /\ portfolio' = portfolio)]_vars

\* C32: pause_trading, resume_trading and set_admin succeed exactly when the
\* caller is the stored admin; otherwise they return NotAdmin and leave the
\* pause flag and the admin unchanged; a successful call writes its flag or
\* the new admin, so the replaced admin is refused from then on.
C32_OnlyAdminAdministers ==
    [][last'.op \in {"pause_trading", "resume_trading", "set_admin"}
          => /\ last'.ok <=> (env.admin # NoAdmin /\ last'.caller = env.admin)
             /\ ~last'.ok => (last'.err = "NotAdmin" /\ env' = env)
             /\ last'.ok =>
                  /\ env'.paused = CASE last'.op = "pause_trading" -> TRUE
                                     [] last'.op = "resume_trading" -> FALSE
                                     [] OTHER -> env.paused
                  /\ env'.admin = IF last'.op = "set_admin" THEN last'.user
                                                             ELSE env.admin]_vars

\* C32 witness: the admin replaced by set_admin has called pause_trading and
\* was refused.
C32_FormerAdminRefused ==
    /\ last.op = "pause_trading" /\ ~last.ok /\ last.err = "NotAdmin"
    /\ ghost.former # NoAdmin /\ last.caller = ghost.former
    /\ env.admin # ghost.former

\* C33: after every call an account holds the FirstTrade badge if and only if
\* its trade count is at least 1; record_trade raises the trade count of its
\* account by exactly 1 and leaves the trade count and the badges of every
\* other account as they were.
C33_FirstTradeIffTraded ==
    [][/\ \A u \in Users :
              HasBadge(portfolio', u, "FirstTrade") <=> MapGet(portfolio'.trades, u, 0) >= 1
       /\ last'.op = "record_trade"
            => /\ MapGet(portfolio'.trades, last'.user, 0)
                     = MapGet(portfolio.trades, last'.user, 0) + 1
               /\ \A u \in Users \ {last'.user} :
                      /\ MapGet(portfolio'.trades, u, 0) = MapGet(portfolio.trades, u, 0)
                      /\ \A b \in Badges :
                             HasBadge(portfolio', u, b) = HasBadge(portfolio, u, b)]_vars

\* C33 witness: an account records its first trade while another account has
\* already traded more than once and holds its FirstTrade badge.
C33_FirstTradeNextToTrader ==
    /\ last.op = "record_trade"
    /\ MapGet(portfolio.trades, last.user, 0) = 1
    /\ HasBadge(portfolio, last.user, "FirstTrade")
    /\ \E u \in Users \ {last.user} :
           /\ MapGet(portfolio.trades, u, 0) > 1
           /\ HasBadge(portfolio, u, "FirstTrade")

----------------------------------------------------------------------------
(* Traded pairs: one account trading each source asset into several targets *)

\* The source assets of the tracked pairs.
PairSources == {XLM, USDCSIM}

\* The ledger height every pair is tracked at.
PairHeight == 1

\* History: the distinct (from, to) pairs the account has traded.
GhostPairs == [pairs |-> {}]

\* Portfolio::track_trade_for_badges
DoTrackPair(user, from, to) ==
    /\ portfolio' = TrackTradeForBadges(portfolio, user, from, to, PairHeight)
    /\ env' = env
    /\ last' = [NoCall EXCEPT !.op = "track_trade_for_badges", !.user = user,
                              !.from = from, !.to = to]
    /\ ghost' = [ghost EXCEPT !.pairs = @ \cup {<<from, to>>}]

\* Portfolio::check_and_award_badges
DoCheckPairs(user) ==
    /\ portfolio' = CheckAndAwardBadges(portfolio, user)
    /\ last' = [NoCall EXCEPT !.op = "check_and_award_badges", !.user = user]
    /\ UNCHANGED <<env, ghost>>

InitPairs ==
    /\ portfolio = NewPortfolio
    /\ env = EnvInit
    /\ last = NoCall
    /\ ghost = GhostPairs

NextPairs ==
    \/ \E from \in PairSources : \E to \in AllTokens \ {from} :
           DoTrackPair(BadgeSubject, from, to)
    \/ DoCheckPairs(BadgeSubject)

SpecPairs == InitPairs /\ [][NextPairs]_vars

\* C34: the traded-pair vector of an account has one entry per distinct (from, to)
\* pair it traded, and after check_and_award_badges the account holds the
\* Diversifier badge exactly when it has traded at least 5 distinct pairs.
C34_DiversifierCountsPairs ==
    /\ Len(MapGet(portfolio.token_pairs_traded, BadgeSubject, <<>>))
           = Cardinality(ghost.pairs)
    /\ last.op = "check_and_award_badges"
         => (HasBadge(portfolio, BadgeSubject, "Diversifier")
               <=> Cardinality(ghost.pairs) >= DiversifierPairs)

\* C35: every leaderboard entry (account, pnl) records the current value of the
\* account's PnL accumulator, also after a debit has lowered it.
C35_LeaderboardRecordsCurrentPnl ==
    \A i \in 1..Len(portfolio.top_traders) :
        portfolio.top_traders[i][2] = MapGet(portfolio.pnl, portfolio.top_traders[i][1], 0)

----------------------------------------------------------------------------
(* Usage statistics: trades recorded with their amount, and transfers *)

\* Calls per behaviour that record a trade or a transfer.
MaxStats == 3

\* The amounts traded or transferred.
StatsAmounts == {-1, SeriesAmount, 2 * SeriesAmount}

\* History: the accounts observed trading, and the calls made.
GhostStats == [observed |-> {}, calls |-> 0]

StatsStep(op, from, to, user, amount, r) ==
    /\ ghost.calls < MaxStats
    /\ portfolio' = r.p
    /\ env' = env
    /\ last' = [NoCall EXCEPT !.op = op, !.user = user, !.from = from, !.to = to,
                              !.amount = amount, !.ok = r.ok, !.err = r.err]
    /\ ghost' = [observed |-> IF r.ok THEN ghost.observed \cup {user} ELSE ghost.observed,
                 calls |-> ghost.calls + 1]

\* Portfolio::record_trade_with_amount
DoRecordTradeWithAmount(user, swap_amount) ==
    StatsStep("record_trade_with_amount", "-", "-", user, swap_amount,
              Ok(RecordTradeWithAmount(portfolio, user, swap_amount)))

\* Portfolio::transfer_asset
DoTransferInStats(from_token, to_token, user, amount) ==
    StatsStep("transfer_asset", from_token, to_token, user, amount,
              TransferAsset(portfolio, from_token, to_token, user, amount))

InitStats ==
    /\ portfolio = Funded
    /\ env = EnvInit
    /\ last = NoCall
    /\ ghost = GhostStats

NextStats ==
    \/ \E u \in Users, a \in StatsAmounts \ {-1} : DoRecordTradeWithAmount(u, a)
    \/ \E u \in Users, a \in StatsAmounts, from \in PoolAssets :
          \E to \in PoolAssets \ {from} : DoTransferInStats(from, to, u, a)

SpecStats == InitStats /\ [][NextStats]_vars

\* C36: after any sequence of record_trade_with_amount and transfer_asset calls
\* total_users is the number of distinct accounts observed trading, which is the
\* length of the active-user vector: each account is counted once.
C36_TotalUsersCountsAccounts ==
    /\ portfolio.total_users = Len(portfolio.active_users)
    /\ portfolio.total_users = Cardinality(ghost.observed)

----------------------------------------------------------------------------
(* Transfers between the assets of an account, up to the end of the range *)

\* Calls per behaviour.
MaxTransfers == 3

\* The amounts credited, minted and transferred.
TransferAmounts == {-1, PoolAmount, 3 * PoolAmount, IntMax}

GhostTransfers == [calls |-> 0]

\* A method call on the aggregate, which is left as the method left it.
TransferStep(op, from, to, user, amount, r) ==
    /\ ghost.calls < MaxTransfers
    /\ portfolio' = r.p
    /\ env' = env
    /\ last' = [NoCall EXCEPT !.op = op, !.user = user, !.from = from, !.to = to,
                              !.amount = amount, !.ok = r.ok, !.err = r.err]
    /\ ghost' = [calls |-> ghost.calls + 1]

\* Portfolio::credit
CreditBefore(token, user, amount) ==
    TransferStep("credit", "-", token, user, amount, Credit(portfolio, token, user, amount))

\* Portfolio::mint
MintBefore(token, user, amount) ==
    TransferStep("mint", "-", token, user, amount, Mint(portfolio, token, user, amount))

\* Portfolio::transfer_asset between two different assets
TransferBetween(from_token, to_token, user, amount) ==
    TransferStep("transfer_asset", from_token, to_token, user, amount,
                 TransferAsset(portfolio, from_token, to_token, user, amount))

InitTransfers ==
    /\ portfolio = NewPortfolio
    /\ env = EnvInit
    /\ last = NoCall
    /\ ghost = GhostTransfers

NextTransfers ==
    \/ \E t \in PoolAssets, u \in Users : CreditBefore(t, u, PoolAmount)
    \/ \E t \in PoolAssets, u \in Users, a \in {PoolAmount, IntMax} : MintBefore(t, u, a)
    \/ \E from \in PoolAssets, u \in Users, a \in TransferAmounts :
          \E to \in PoolAssets \ {from} : TransferBetween(from, to, u, a)

SpecTransfers == InitTransfers /\ [][NextTransfers]_vars

\* C37: transfer_asset is all-or-nothing.  It either succeeds, lowering the from
\* balance by the amount and raising the to balance by the amount, or it fails
\* because the amount is not positive or the from balance is short, before any
\* credit, and leaves the whole aggregate as it was.
C37_TransferAllOrNothing ==
    [][last'.op = "transfer_asset"
         => \/ /\ last'.ok
               /\ BalanceOf(portfolio', last'.from, last'.user)
                      = BalanceOf(portfolio, last'.from, last'.user) - last'.amount
               /\ BalanceOf(portfolio', last'.to, last'.user)
                      = BalanceOf(portfolio, last'.to, last'.user) + last'.amount
            \/ /\ ~last'.ok
               /\ \/ last'.amount <= 0
                  \/ BalanceOf(portfolio, last'.from, last'.user) < last'.amount
               /\ portfolio' = portfolio]_vars

\* C38: LP funds are never locked.  In every state reached by deposits and
\* withdrawals of several accounts, an account that holds s > 0 shares can
\* withdraw all s of them: its remove_liquidity call for s shares succeeds.
C38_SharesCanBeWithdrawn ==
    \A u \in Users :
        LET s == PositionOf(portfolio, u).lp_tokens_minted IN
        s > 0 => RemoveLiquidityCall(portfolio, env, s, u).ok

----------------------------------------------------------------------------
(* A second deposit slightly off the pool's ratio, then withdrawals *)

\* The XLM side of the off-ratio deposit, made with 1 USDCSIM.
SkewXlm == 5

SkewDeposits == {<<SkewXlm, 1>>, <<PoolAmount, PoolAmount>>}
SkewShares == {1, PoolAmount \div 2, PoolAmount}

InitSkew ==
    /\ portfolio = PooledCall.p
    /\ env = PooledCall.e
    /\ last = NoCall
    /\ ghost = GhostFunded

NextSkew ==
    \/ \E d \in SkewDeposits, u \in Users : DoAddLiquidity(u, d[1], d[2], u)
    \/ \E sh \in SkewShares, u \in Users : DoRemoveLiquidity(u, sh, u)

SpecSkew == InitSkew /\ [][NextSkew]_vars

\* C39: the deposited amount of each asset and the share count recorded in
\* every LP position are never negative.
C39_PositionsNonNegative ==
    \A u \in DOMAIN portfolio.lp_positions :
        /\ portfolio.lp_positions[u].xlm_deposited >= 0
        /\ portfolio.lp_positions[u].usdc_deposited >= 0
        /\ portfolio.lp_positions[u].lp_tokens_minted >= 0

----------------------------------------------------------------------------
(* A pool reserve at the end of the integer range *)

\* The XLM side of the deposit made into the brimming pool, with 1 USDCSIM.
BrimDeposit == 60000

\* The aggregate after alice has minted and deposited all but one unit of the
\* integer range of XLM with 1 USDCSIM, and bob has minted his deposit.
BrimmingCall ==
    LET a1 == MintCall(NewPortfolio, XLM, "alice", IntMax - 1).p
        a2 == MintCall(a1, USDCSIM, "alice", 1).p
        pooled == AddLiquidityCall(a2, EnvInit, IntMax - 1, 1, "alice")
        b1 == MintCall(pooled.p, XLM, "bob", BrimDeposit).p
    IN [p |-> MintCall(b1, USDCSIM, "bob", 1).p, e |-> pooled.e]

BrimMints == {1, IntMax}
BrimDeposits == {<<BrimDeposit, 1>>, <<1, 1>>}

\* What the mints before the brimming state have created.
GhostBrimming ==
    [GhostInit EXCEPT !.minted = [t \in AllTokens |->
        IF t = XLM THEN IntMax - 1 + BrimDeposit ELSE IF t = USDCSIM THEN 2 ELSE 0]]

InitBrim ==
    /\ last = NoCall
    /\ \/ portfolio = NewPortfolio /\ env = EnvInit /\ ghost = GhostInit
       \/ portfolio = BrimmingCall.p /\ env = BrimmingCall.e /\ ghost = GhostBrimming

NextBrim ==
    \/ \E t \in PoolAssets, u \in Users, a \in BrimMints : DoMint(u, t, u, a)
    \/ \E d \in BrimDeposits, u \in Users : DoAddLiquidity(u, d[1], d[2], u)

SpecBrim == InitBrim /\ [][NextBrim]_vars

\* C40: arithmetic overflow is a hard stop, never a silent clamp.  A mint or an
\* add_liquidity that succeeds has stored the exact sums: the balance and the
\* PnL value grown by the amount minted, the reserves by the amounts deposited,
\* the LP supply by the shares minted; one that fails has changed nothing.
C40_OverflowIsHardStop ==
    [][/\ (last'.op = "mint" /\ last'.ok)
            => /\ BalanceOf(portfolio', last'.to, last'.user)
                      = BalanceOf(portfolio, last'.to, last'.user) + last'.amount
               /\ MapGet(portfolio'.pnl, last'.user, 0)
                      = MapGet(portfolio.pnl, last'.user, 0) + last'.amount
       /\ (last'.op = "add_liquidity" /\ last'.ok)
            => /\ portfolio'.xlm_in_pool = portfolio.xlm_in_pool + last'.amount
               /\ portfolio'.usdc_in_pool = portfolio.usdc_in_pool + last'.amount2
               /\ portfolio'.total_lp_tokens = portfolio.total_lp_tokens + last'.out
       /\ (last'.op \in {"mint", "add_liquidity"} /\ ~last'.ok)
            => portfolio' = portfolio]_vars

====
